---------------------------- MODULE Spec2Model ----------------------------
(***************************************************************************)
(* A model of the simulation kernel of vladyslavpavlenko/pacman: the grid  *)
(* world (internal/model), the BFS distance map (internal/logic/           *)
(* intelligence), the movement engine (internal/logic/physics) and the     *)
(* game's Update loop (internal/game).                                     *)
(*                                                                         *)
(* Positions and speeds are float64 pixels in the code.  The model keeps   *)
(* them in fixed point, one unit = 1/100 pixel (PX), which represents      *)
(* every configured speed (0.9 .. 2.2 px/tick and 2.2 * 1.8 = 3.96)        *)
(* exactly.  Tiles are indexed from 0 as in the code; Grid[y][x].          *)
(***************************************************************************)
EXTENDS Integers, Sequences, FiniteSets, TLC

VARIABLES
    level,      \* the *model.Level under test (grid world)
    distMap,    \* the *intelligence.DistanceMap
    bfsQueue,   \* the queue slice of the last BuildBFS, as it stood at return
    bfsTarget,  \* <<targetPos>> of the last BuildBFS call, << >> before the first
    loadIn,     \* the levelData argument handed to model.New
    loadOut,    \* what model.New did with loadIn: [done, ok, level]
    ent,        \* the *model.Entity driven through internal/logic/physics
    prev,       \* the turn made by the last call on ent, if it made one:
                \* [op, pre, mid], pre being ent at the call and mid being ent
                \* as it stood right after the call's assignment to Dir
    crashed,    \* TRUE once a call has ended in a run-time panic
    game,       \* the *game.Game (with its menu)
    hist,       \* what the Update calls since the level was last created did
    lastConsume \* the last Level.ConsumePellet call: [called, x, y, ret, before]

bfsVars == <<distMap, bfsQueue, bfsTarget>>

loadVars == <<loadIn, loadOut>>

physVars == <<ent, prev, crashed>>

gameVars == <<game, hist>>

vars == <<level, distMap, bfsQueue, bfsTarget, loadIn, loadOut, lastConsume,
          ent, prev, crashed, game, hist>>

---------------------------------------------------------------------------
(* Arithmetic helpers                                                      *)

\* One pixel in model units.
PX(n) == 100 * n

Abs(a) == IF a < 0 THEN -a ELSE a

\* Go's integer division and float-to-int conversion both truncate toward 0.
TruncDiv(a, b) == IF a >= 0 THEN a \div b ELSE -((-a) \div b)

Vec(x, y) == [X |-> x, Y |-> y]

ZeroVec == Vec(0, 0)

\* types.Vector.Add
VAdd(v, u) == Vec(v.X + u.X, v.Y + u.Y)

\* types.Vector.Mul
VMul(v, s) == Vec(v.X * s, v.Y * s)

\* types.Vector.Eq
VEq(v, u) == v.X = u.X /\ v.Y = u.Y

---------------------------------------------------------------------------
(* Grid world: internal/model                                              *)

TileEmpty == " "
TileWall  == "#"
TilePel   == "."

\* Level.CanWalk
CanWalk(lvl, x, y) ==
    IF x < 0 \/ y < 0 \/ x >= lvl.Width \/ y >= lvl.Height
    THEN FALSE
    ELSE lvl.Grid[y][x] # TileWall

\* Level.GetTile
GetTile(lvl, x, y) ==
    IF x < 0 \/ y < 0 \/ x >= lvl.Width \/ y >= lvl.Height
    THEN TileWall
    ELSE lvl.Grid[y][x]

\* Level.SetTile
SetTile(lvl, x, y, tile) ==
    IF x < 0 \/ y < 0 \/ x >= lvl.Width \/ y >= lvl.Height
    THEN lvl
    ELSE [lvl EXCEPT !.Grid[y][x] = tile]

---------------------------------------------------------------------------
(* Level construction: model.New                                           *)

\* A level definition is a sequence of rows; a row is a sequence of
\* one-character strings (the bytes of the Go string).
DefaultLevelData == <<
    << "#","#","#","#","#","#","#","#","#","#","#","#","#","#","#","#","#","#","#","#","#" >>,
    << "#",".",".",".",".",".",".",".",".",".",".",".",".",".",".",".",".",".",".",".","#" >>,
    << "#",".","#","#","#",".","#",".","#","#","#",".","#",".","#","#","#",".","#","#","#" >>,
    << "#",".","#",".",".",".","#",".",".",".","#",".",".",".","#",".",".",".","#",".","#" >>,
    << "#",".","#",".","#","#","#","#","#",".","#",".","#","#","#","#","#",".","#",".","#" >>,
    << "#",".",".",".",".",".",".",".",".",".",".",".",".",".",".",".",".",".",".",".","#" >>,
    << "#",".","#","#","#",".","#",".","#","#","#",".","#",".","#","#","#",".","#","#","#" >>,
    << "#",".","#",".",".",".","#",".",".",".","#",".",".",".","#",".",".",".","#",".","#" >>,
    << "#",".","#",".","#","#","#","#","#",".","#",".","#","#","#","#","#",".","#",".","#" >>,
    << "#",".",".",".",".",".",".",".",".",".",".",".",".",".",".",".",".",".",".",".","#" >>,
    << "#","#","#","#","#","#","#","#","#","#","#","#","#","#","#","#","#","#","#","#","#" >>
>>

\* The switch on ch in New.
TileOfChar(ch) ==
    IF ch = "#" THEN TileWall
    ELSE IF ch = "." THEN TilePel
    ELSE TileEmpty

NoLevel ==
    [Width |-> 0, Height |-> 0, Grid |-> << >>, TotalPellets |-> 0, Apples |-> << >>]

\* model.New.  levelData[y][x] with x >= len(levelData[y]) is a Go run-time
\* panic (index out of range): the result then has ok = FALSE and no level.
\* A row longer than the first is read only up to Width.
LoadRows(data) ==
    LET Width  == Len(data[1])
        Height == Len(data)
        panics == \E y \in 1 .. Height : Len(data[y]) < Width
        Grid   == [y \in 0 .. Height - 1 |->
                     [x \in 0 .. Width - 1 |-> TileOfChar(data[y + 1][x + 1])]]
    IN  IF panics
        THEN [ok |-> FALSE, level |-> NoLevel]
        ELSE [ok |-> TRUE,
              level |-> [Width |-> Width, Height |-> Height, Grid |-> Grid,
                         TotalPellets |->
                             Cardinality({c \in (0 .. Width - 1) \X (0 .. Height - 1) :
                                             Grid[c[2]][c[1]] = TilePel}),
                         Apples |-> << >>]]

NewMutEmptyFails(levelData) ==
    IF Len(levelData) = 0
    THEN [ok |-> FALSE, level |-> NoLevel]
    ELSE LoadRows(levelData)

New(levelData) ==
    LoadRows(IF Len(levelData) = 0 THEN DefaultLevelData ELSE levelData)

\* Level.ConsumePellet: the level after the call and the returned bool.
ConsumePelletMutAnyCell(lvl, x, y) ==
    IF GetTile(lvl, x, y) # TileWall
    THEN [level |-> SetTile(lvl, x, y, TileEmpty), ret |-> TRUE]
    ELSE [level |-> lvl, ret |-> FALSE]

ConsumePellet(lvl, x, y) ==
    IF GetTile(lvl, x, y) = TilePel
    THEN [level |-> SetTile(lvl, x, y, TileEmpty), ret |-> TRUE]
    ELSE [level |-> lvl, ret |-> FALSE]

---------------------------------------------------------------------------
(* Geometry: internal/logic/physics                                        *)

TileSize == PX(24)

\* physics.TileCenter
TileCenter(tileX, tileY) ==
    Vec(tileX * TileSize + TileSize \div 2, tileY * TileSize + TileSize \div 2)

\* physics.PosToTile: int(pos.X) / TileSize, both truncating toward zero.
PosToTileMutNoTrunc(pos) ==
    [X |-> pos.X \div TileSize, Y |-> pos.Y \div TileSize]

PosToTile(pos) ==
    [X |-> TruncDiv(TruncDiv(pos.X, PX(1)), 24),
     Y |-> TruncDiv(TruncDiv(pos.Y, PX(1)), 24)]

---------------------------------------------------------------------------
(* Distance oracle: DistanceMap.BuildBFS / GetDistance                     *)

INF == 1073741824

\* The directions slice of BuildBFS, in the order the loop visits it.
Directions == << [X |-> 1, Y |-> 0], [X |-> -1, Y |-> 0],
                 [X |-> 0, Y |-> 1], [X |-> 0, Y |-> -1] >>

\* NewDistanceMap: a height x width matrix of zeroes.
NewDistanceMap(width, height) ==
    [width |-> width, height |-> height,
     distances |-> [y \in 0 .. height - 1 |-> [x \in 0 .. width - 1 |-> 0]]]

\* The body of the inner "for _, dir := range directions" loop for one
\* direction: st is [distances, queue], cur the dequeued node.
RelaxDirMutOffByOne(dm, lvl, st, cur, dir) ==
    LET nextX == cur.x + dir.X
        nextY == cur.y + dir.Y
    IN  IF nextX < 0 \/ nextY < 0 \/ nextX >= dm.width \/ nextY >= dm.height
        THEN st
        ELSE IF ~CanWalk(lvl, nextX, nextY)
        THEN st
        ELSE LET newDistance == st.distances[cur.y][cur.x] + 2
             IN  IF st.distances[nextY][nextX] > newDistance
                 THEN [distances |-> [st.distances EXCEPT ![nextY][nextX] = newDistance],
                       queue |-> Append(st.queue, [x |-> nextX, y |-> nextY])]
                 ELSE st

RelaxDirMutAlsoEqual(dm, lvl, st, cur, dir) ==
    LET nextX == cur.x + dir.X
        nextY == cur.y + dir.Y
    IN  IF nextX < 0 \/ nextY < 0 \/ nextX >= dm.width \/ nextY >= dm.height
        THEN st
        ELSE IF ~CanWalk(lvl, nextX, nextY)
        THEN st
        ELSE LET newDistance == st.distances[cur.y][cur.x] + 1
             IN  IF st.distances[nextY][nextX] >= newDistance
                 THEN [distances |-> [st.distances EXCEPT ![nextY][nextX] = newDistance],
                       queue |-> Append(st.queue, [x |-> nextX, y |-> nextY])]
                 ELSE st

RelaxDir(dm, lvl, st, cur, dir) ==
    LET nextX == cur.x + dir.X
        nextY == cur.y + dir.Y
    IN  IF nextX < 0 \/ nextY < 0 \/ nextX >= dm.width \/ nextY >= dm.height
        THEN st
        ELSE IF ~CanWalk(lvl, nextX, nextY)
        THEN st
        ELSE LET newDistance == st.distances[cur.y][cur.x] + 1
             IN  IF st.distances[nextY][nextX] > newDistance
                 THEN [distances |-> [st.distances EXCEPT ![nextY][nextX] = newDistance],
                       queue |-> Append(st.queue, [x |-> nextX, y |-> nextY])]
                 ELSE st

\* One iteration of "for head < len(queue)": dequeue and relax 4 directions.
BFSVisitMutNoUp(dm, lvl, st, cur) ==
    RelaxDir(dm, lvl,
      RelaxDir(dm, lvl,
        RelaxDir(dm, lvl, st, cur, Directions[1]),
        cur, Directions[2]),
      cur, Directions[3])

BFSVisit(dm, lvl, st, cur) ==
    RelaxDir(dm, lvl,
      RelaxDir(dm, lvl,
        RelaxDir(dm, lvl,
          RelaxDir(dm, lvl, st, cur, Directions[1]),
          cur, Directions[2]),
        cur, Directions[3]),
      cur, Directions[4])

RECURSIVE BFSLoop(_, _, _, _)
BFSLoop(dm, lvl, st, head) ==
    IF head > Len(st.queue)
    THEN st
    ELSE BFSLoop(dm, lvl, BFSVisit(dm, lvl, st, st.queue[head]), head + 1)

\* DistanceMap.BuildBFS: the result is [distances, queue]; queue is the
\* slice as it stands when the loop ends (every node ever enqueued).
BuildBFS(dm, targetPos, lvl) ==
    LET cleared == [y \in 0 .. dm.height - 1 |-> [x \in 0 .. dm.width - 1 |-> INF]]
        t == PosToTile(targetPos)
    IN  IF t.X < 0 \/ t.Y < 0 \/ t.X >= dm.width \/ t.Y >= dm.height
        THEN [distances |-> cleared, queue |-> << >>]
        ELSE BFSLoop(dm, lvl,
                     [distances |-> [cleared EXCEPT ![t.Y][t.X] = 0],
                      queue |-> << [x |-> t.X, y |-> t.Y] >>],
                     1)

\* DistanceMap.GetDistance
GetDistance(dm, tileX, tileY) ==
    IF tileX < 0 \/ tileY < 0 \/ tileX >= dm.width \/ tileY >= dm.height
    THEN INF
    ELSE dm.distances[tileY][tileX]

---------------------------------------------------------------------------
(* Movement engine: internal/logic/physics                                 *)
(*                                                                         *)
(* An entity is [Pos, Dir, WantDir, Speed, SpawnTile]: Pos in model units, *)
(* Dir and WantDir vectors of integers, Speed in model units per tick.     *)

\* The tile of pos and its centre.
CenterOf(pos) == TileCenter(PosToTile(pos).X, PosToTile(pos).Y)

\* physics.NearCenter (tolerance 4.0 px)
NearCenter(pos) ==
    Abs(pos.X - CenterOf(pos).X) <= PX(4) /\ Abs(pos.Y - CenterOf(pos).Y) <= PX(4)

\* physics.AtCenter (tolerance 1.0 px)
AtCenter(pos) ==
    Abs(pos.X - CenterOf(pos).X) <= PX(1) /\ Abs(pos.Y - CenterOf(pos).Y) <= PX(1)

\* physics.VeryNearCenter (tolerance 2.0 px)
VeryNearCenter(pos) ==
    Abs(pos.X - CenterOf(pos).X) <= PX(2) /\ Abs(pos.Y - CenterOf(pos).Y) <= PX(2)

\* physics.CanTurn
CanTurn(pos, wantDir, lvl) ==
    CanWalk(lvl, PosToTile(pos).X + wantDir.X, PosToTile(pos).Y + wantDir.Y)

\* physics.TryTurn
TryTurnMutNoCentreTest(entity, wantDir, lvl) ==
    IF wantDir.X = 0 /\ wantDir.Y = 0 THEN entity
    ELSE IF VEq(wantDir, entity.Dir) THEN [entity EXCEPT !.WantDir = wantDir]
    ELSE IF ~CanTurn(entity.Pos, wantDir, lvl) THEN [entity EXCEPT !.WantDir = wantDir]
    ELSE [entity EXCEPT !.WantDir = wantDir, !.Dir = wantDir, !.Pos = CenterOf(entity.Pos)]

TryTurn(entity, wantDir, lvl) ==
    IF wantDir.X = 0 /\ wantDir.Y = 0 THEN entity
    ELSE IF VEq(wantDir, entity.Dir) THEN [entity EXCEPT !.WantDir = wantDir]
    ELSE IF ~CanTurn(entity.Pos, wantDir, lvl) THEN [entity EXCEPT !.WantDir = wantDir]
    ELSE IF VeryNearCenter(entity.Pos)
         THEN [entity EXCEPT !.WantDir = wantDir, !.Dir = wantDir,
                             !.Pos = CenterOf(entity.Pos)]
         ELSE [entity EXCEPT !.WantDir = wantDir]

\* Half of hitboxSize = TileSize * 0.8.
HitboxHalf == (TileSize * 8) \div 20

\* The corners slice of CanMoveTo.
HitboxCorners(pos) ==
    << Vec(pos.X - HitboxHalf, pos.Y - HitboxHalf),
       Vec(pos.X + HitboxHalf, pos.Y - HitboxHalf),
       Vec(pos.X - HitboxHalf, pos.Y + HitboxHalf),
       Vec(pos.X + HitboxHalf, pos.Y + HitboxHalf) >>

\* physics.CanMoveTo
CanMoveToMutCentreOnly(pos, lvl) ==
    CanWalk(lvl, PosToTile(pos).X, PosToTile(pos).Y)

CanMoveTo(pos, lvl) ==
    LET corners == HitboxCorners(pos)
    IN  \A i \in 1 .. 4 :
           LET tile == PosToTile(corners[i]) IN CanWalk(lvl, tile.X, tile.Y)

StepTurnMutAtCenterOnly(entity, lvl) ==
    IF ~VEq(entity.WantDir, entity.Dir) /\ CanTurn(entity.Pos, entity.WantDir, lvl)
       /\ AtCenter(entity.Pos)
    THEN [entity EXCEPT !.Dir = entity.WantDir, !.Pos = CenterOf(entity.Pos)]
    ELSE entity

\* StepMove, first part: the pending turn.
StepTurnMutNoSnap(entity, lvl) ==
    IF ~VEq(entity.WantDir, entity.Dir) /\ CanTurn(entity.Pos, entity.WantDir, lvl)
       /\ (AtCenter(entity.Pos) \/ NearCenter(entity.Pos))
    THEN [entity EXCEPT !.Dir = entity.WantDir]
    ELSE entity

StepTurn(entity, lvl) ==
    IF ~VEq(entity.WantDir, entity.Dir) /\ CanTurn(entity.Pos, entity.WantDir, lvl)
       /\ (AtCenter(entity.Pos) \/ NearCenter(entity.Pos))
    THEN [entity EXCEPT !.Dir = entity.WantDir, !.Pos = CenterOf(entity.Pos)]
    ELSE entity

StepAdvanceMutKeepDir(entity, lvl) ==
    IF VEq(entity.Dir, ZeroVec) THEN entity
    ELSE LET next == VAdd(entity.Pos, VMul(entity.Dir, entity.Speed))
         IN  IF ~CanMoveTo(next, lvl)
             THEN [entity EXCEPT
                     !.Pos = Vec(IF entity.Dir.X # 0 THEN CenterOf(entity.Pos).X
                                                     ELSE entity.Pos.X,
                                 IF entity.Dir.Y # 0 THEN CenterOf(entity.Pos).Y
                                                     ELSE entity.Pos.Y)]
             ELSE [entity EXCEPT !.Pos = next]

\* StepMove, second part: the advance, or the rejection with its snap.
StepAdvance(entity, lvl) ==
    IF VEq(entity.Dir, ZeroVec) THEN entity
    ELSE LET next == VAdd(entity.Pos, VMul(entity.Dir, entity.Speed))
         IN  IF ~CanMoveTo(next, lvl)
             THEN [entity EXCEPT
                     !.Pos = Vec(IF entity.Dir.X # 0 THEN CenterOf(entity.Pos).X
                                                     ELSE entity.Pos.X,
                                 IF entity.Dir.Y # 0 THEN CenterOf(entity.Pos).Y
                                                     ELSE entity.Pos.Y),
                     !.Dir = ZeroVec]
             ELSE [entity EXCEPT !.Pos = next]

\* physics.StepMove
StepMove(entity, lvl) == StepAdvance(StepTurn(entity, lvl), lvl)

\* physics.ResetEntityPosition
ResetEntityPositionMutKeepWantDir(entity) ==
    [entity EXCEPT !.Pos = TileCenter(entity.SpawnTile.X, entity.SpawnTile.Y),
                   !.Dir = ZeroVec]

ResetEntityPosition(entity) ==
    [entity EXCEPT !.Pos = TileCenter(entity.SpawnTile.X, entity.SpawnTile.Y),
                   !.Dir = ZeroVec, !.WantDir = ZeroVec]

\* physics.CheckCollision: |e1.Pos - e2.Pos| <= radius, on squares.
CheckCollision(entity1, entity2, radius) ==
    LET dx == Abs(entity1.Pos.X - entity2.Pos.X)
        dy == Abs(entity1.Pos.Y - entity2.Pos.Y)
    IN  dx <= radius /\ dy <= radius /\ dx * dx + dy * dy <= radius * radius

\* model.NewPlayer / model.NewGhost followed by Pos = TileCenter(spawn), as
\* initLevel creates every entity.
NewEntity(spawnX, spawnY, speed) ==
    [Pos |-> TileCenter(spawnX, spawnY), Dir |-> ZeroVec, WantDir |-> ZeroVec,
     Speed |-> speed, SpawnTile |-> [X |-> spawnX, Y |-> spawnY]]

---------------------------------------------------------------------------
(* Ghost decision policies: internal/logic/entities (the variant that      *)
(* Game.updateGhostAI calls).  rand.Intn(n) is the parameter rnd, reduced  *)
(* modulo n; a policy returns the ghost as it leaves it.                   *)

\* The gate every policy opens with: not at a tile centre while moving.
PolicyGated(ghost) == ~AtCenter(ghost.Pos) /\ ~VEq(ghost.Dir, ZeroVec)

\* The directions, in the order of the literal {1,0},{-1,0},{0,1},{0,-1},
\* whose neighbour tile is walkable.
WalkableDirs(lvl, tile) ==
    SelectSeq(Directions, LAMBDA d : CanWalk(lvl, tile.X + d.X, tile.Y + d.Y))

\* exitCount of smartGhostAI / geniusGhostAI for the tile (x, y).
ExitCount(lvl, x, y) ==
    Cardinality({i \in 1 .. 4 : CanWalk(lvl, x + Directions[i].X, y + Directions[i].Y)})

\* The minimum of the candidates' distances, starting from 1 << 30.
RECURSIVE MinDistance(_, _, _)
MinDistance(options, i, acc) ==
    IF i > Len(options) THEN acc
    ELSE MinDistance(options, i + 1,
                     IF options[i].distance < acc THEN options[i].distance ELSE acc)

BestOptions(options) ==
    SelectSeq(options, LAMBDA o : o.distance = MinDistance(options, 1, INF))

\* dumbGhostAI
dumbGhostAI(ghost, lvl, rnd) ==
    LET tile == PosToTile(ghost.Pos)
        directions == WalkableDirs(lvl, tile)
    IN  IF PolicyGated(ghost) THEN ghost
        ELSE IF VEq(ghost.Dir, ZeroVec) /\ Len(directions) > 0
        THEN [ghost EXCEPT !.Dir = directions[1], !.WantDir = directions[1],
                           !.Pos = TileCenter(tile.X, tile.Y)]
        ELSE IF Len(directions) = 0
        THEN IF ~VEq(ghost.Dir, ZeroVec)
                /\ CanWalk(lvl, tile.X + ghost.Dir.X, tile.Y + ghost.Dir.Y)
             THEN [ghost EXCEPT !.Pos = TileCenter(tile.X, tile.Y)]
             ELSE [ghost EXCEPT !.Dir = ZeroVec, !.WantDir = ZeroVec]
        ELSE [ghost EXCEPT !.WantDir = directions[(rnd % Len(directions)) + 1]]

\* The options slice of normalGhostAI.
NormalOptions(ghost, dm, lvl) ==
    LET tile == PosToTile(ghost.Pos)
        dirs == WalkableDirs(lvl, tile)
    IN  [i \in 1 .. Len(dirs) |->
            [dir |-> dirs[i],
             distance |-> GetDistance(dm, tile.X + dirs[i].X, tile.Y + dirs[i].Y)]]

\* normalGhostAI
normalGhostAIMutFirstOption(ghost, dm, lvl, rnd) ==
    LET tile == PosToTile(ghost.Pos)
        options == NormalOptions(ghost, dm, lvl)
    IN  IF PolicyGated(ghost) THEN ghost
        ELSE IF Len(options) = 0
        THEN IF ~VEq(ghost.Dir, ZeroVec)
                /\ CanWalk(lvl, tile.X + ghost.Dir.X, tile.Y + ghost.Dir.Y)
             THEN [ghost EXCEPT !.Pos = TileCenter(tile.X, tile.Y)]
             ELSE [ghost EXCEPT !.Dir = ZeroVec, !.WantDir = ZeroVec]
        ELSE [ghost EXCEPT !.WantDir = options[1].dir]

normalGhostAI(ghost, dm, lvl, rnd) ==
    LET tile == PosToTile(ghost.Pos)
        options == NormalOptions(ghost, dm, lvl)
        best == BestOptions(options)
    IN  IF PolicyGated(ghost) THEN ghost
        ELSE IF Len(options) = 0
        THEN IF ~VEq(ghost.Dir, ZeroVec)
                /\ CanWalk(lvl, tile.X + ghost.Dir.X, tile.Y + ghost.Dir.Y)
             THEN [ghost EXCEPT !.Pos = TileCenter(tile.X, tile.Y)]
             ELSE [ghost EXCEPT !.Dir = ZeroVec, !.WantDir = ZeroVec]
        ELSE [ghost EXCEPT !.WantDir = best[(rnd % Len(best)) + 1].dir]

\* slowGhostAI: mistake is the outcome of rand.Float32() < 0.3.
slowGhostAI(ghost, dm, lvl, mistake, rnd) ==
    IF PolicyGated(ghost) THEN ghost
    ELSE IF mistake THEN dumbGhostAI(ghost, lvl, rnd)
    ELSE normalGhostAI(ghost, dm, lvl, rnd)

\* The options slice of smartGhostAI: +5 for a candidate with one exit.
SmartOptionsMutNoPenalty(ghost, dm, lvl) ==
    LET tile == PosToTile(ghost.Pos)
        dirs == WalkableDirs(lvl, tile)
    IN  [i \in 1 .. Len(dirs) |->
            [dir |-> dirs[i],
             distance |-> GetDistance(dm, tile.X + dirs[i].X, tile.Y + dirs[i].Y)]]

SmartOptions(ghost, dm, lvl) ==
    LET tile == PosToTile(ghost.Pos)
        dirs == WalkableDirs(lvl, tile)
    IN  [i \in 1 .. Len(dirs) |->
            LET nextX == tile.X + dirs[i].X
                nextY == tile.Y + dirs[i].Y
                distance == GetDistance(dm, nextX, nextY)
            IN  [dir |-> dirs[i],
                 distance |-> IF ExitCount(lvl, nextX, nextY) = 1
                              THEN distance + 5 ELSE distance]]

\* smartGhostAI reaches rand.Intn(0), a run-time panic, when every option
\* scores above 1 << 30 and bestOptions stays empty.
smartGhostAIPanics(ghost, dm, lvl) ==
    /\ ~PolicyGated(ghost)
    /\ Len(SmartOptions(ghost, dm, lvl)) > 0
    /\ Len(BestOptions(SmartOptions(ghost, dm, lvl))) = 0

\* smartGhostAI (where it does not panic)
smartGhostAI(ghost, dm, lvl, rnd) ==
    LET options == SmartOptions(ghost, dm, lvl)
        best == BestOptions(options)
    IN  IF PolicyGated(ghost) THEN ghost
        ELSE IF Len(options) = 0 THEN [ghost EXCEPT !.Dir = ZeroVec]
        ELSE IF Len(best) = 0 THEN ghost
        ELSE [ghost EXCEPT !.WantDir = best[(rnd % Len(best)) + 1].dir]

\* The options slice of geniusGhostAI: -2 within three tiles of the
\* target, +10 for a candidate with one exit, -1 for three exits or more.
GeniusOptions(ghost, dm, lvl) ==
    LET tile == PosToTile(ghost.Pos)
        dirs == WalkableDirs(lvl, tile)
    IN  [i \in 1 .. Len(dirs) |->
            LET nextX == tile.X + dirs[i].X
                nextY == tile.Y + dirs[i].Y
                d0 == GetDistance(dm, nextX, nextY)
                d1 == IF d0 <= 3 THEN d0 - 2 ELSE d0
                exitCount == ExitCount(lvl, nextX, nextY)
            IN  [dir |-> dirs[i],
                 distance |-> IF exitCount = 1 THEN d1 + 10
                              ELSE IF exitCount >= 3 THEN d1 - 1 ELSE d1]]

\* geniusGhostAI reaches rand.Intn(0) when bestOptions stays empty.
geniusGhostAIPanics(ghost, dm, lvl) ==
    /\ ~PolicyGated(ghost)
    /\ Len(GeniusOptions(ghost, dm, lvl)) > 0
    /\ Len(BestOptions(GeniusOptions(ghost, dm, lvl))) = 0

\* geniusGhostAI (where it does not panic)
geniusGhostAI(ghost, dm, lvl, rnd) ==
    LET options == GeniusOptions(ghost, dm, lvl)
        best == BestOptions(options)
        keep == SelectSeq(best, LAMBDA o : VEq(o.dir, ghost.Dir))
    IN  IF PolicyGated(ghost) THEN ghost
        ELSE IF Len(options) = 0 THEN [ghost EXCEPT !.Dir = ZeroVec]
        ELSE IF Len(best) = 0 THEN ghost
        ELSE IF Len(best) > 1 /\ Len(keep) > 0 THEN [ghost EXCEPT !.WantDir = keep[1].dir]
        ELSE [ghost EXCEPT !.WantDir = best[(rnd % Len(best)) + 1].dir]

\* The Manhattan loop shared by ChaseAI, ScatterAI, PatrolAI and AmbushAI:
\* the first direction, in enumeration order, of least distance to target
\* from the neighbour tile; the zero vector when no neighbour is walkable.
ManhattanDist(dir, tile, target) ==
    Abs(tile.X + dir.X - target.X) + Abs(tile.Y + dir.Y - target.Y)

BestManhattanDir(lvl, tile, target) ==
    LET dirs == WalkableDirs(lvl, tile)
    IN  IF Len(dirs) = 0 THEN ZeroVec
        ELSE dirs[CHOOSE i \in 1 .. Len(dirs) :
                    /\ \A j \in 1 .. Len(dirs) :
                          ManhattanDist(dirs[i], tile, target) <= ManhattanDist(dirs[j], tile, target)
                    /\ \A j \in 1 .. i - 1 :
                          ManhattanDist(dirs[j], tile, target) > ManhattanDist(dirs[i], tile, target)]

SteerToMutRawOffset(ghost, lvl, target) ==
    LET tile == PosToTile(ghost.Pos)
        bestDir == Vec(target.X - tile.X, target.Y - tile.Y)
    IN  IF ~VEq(bestDir, ZeroVec) THEN [ghost EXCEPT !.WantDir = bestDir] ELSE ghost

SteerTo(ghost, lvl, target) ==
    LET bestDir == BestManhattanDir(lvl, PosToTile(ghost.Pos), target)
    IN  IF ~VEq(bestDir, ZeroVec) THEN [ghost EXCEPT !.WantDir = bestDir] ELSE ghost

\* ChaseAI
ChaseAI(ghost, lvl, playerPos) ==
    IF PolicyGated(ghost) THEN ghost
    ELSE SteerTo(ghost, lvl, PosToTile(playerPos))

\* ScatterAI
ScatterAI(ghost, lvl, cornerPos) ==
    IF PolicyGated(ghost) THEN ghost
    ELSE SteerTo(ghost, lvl, PosToTile(cornerPos))

\* FrightenedAI
FrightenedAI(ghost, lvl, rnd) ==
    LET validDirs == WalkableDirs(lvl, PosToTile(ghost.Pos))
    IN  IF PolicyGated(ghost) THEN ghost
        ELSE IF Len(validDirs) > 0
        THEN [ghost EXCEPT !.WantDir = validDirs[(rnd % Len(validDirs)) + 1]]
        ELSE ghost

\* int(v) of a float64 holding model units.
IntOf(v) == TruncDiv(v, PX(1))

\* PatrolAI
PatrolAI(ghost, lvl, patrolPoints, rnd) ==
    LET tile == PosToTile(ghost.Pos)
        distToFirst == Abs(tile.X - IntOf(patrolPoints[1].X))
                         + Abs(tile.Y - IntOf(patrolPoints[1].Y))
        distToSecond == Abs(tile.X - IntOf(patrolPoints[2].X))
                          + Abs(tile.Y - IntOf(patrolPoints[2].Y))
        targetPos == IF distToFirst < distToSecond THEN patrolPoints[2]
                                                   ELSE patrolPoints[1]
    IN  IF PolicyGated(ghost) THEN ghost
        ELSE IF Len(patrolPoints) < 2 THEN FrightenedAI(ghost, lvl, rnd)
        ELSE SteerTo(ghost, lvl, PosToTile(targetPos))

\* AmbushAI: predictedPos = playerPos + playerDir * 3 (pixels).
AmbushAI(ghost, lvl, playerPos, playerDir) ==
    IF PolicyGated(ghost) THEN ghost
    ELSE SteerTo(ghost, lvl, PosToTile(VAdd(playerPos, VMul(playerDir, PX(3)))))

\* The corners and patrolPoints slices of Game.updateGhostAI: tile numbers
\* stored in float64 vectors.
ScatterCorners(lvl) ==
    << Vec(PX(1), PX(1)), Vec(PX(lvl.Width - 2), PX(1)),
       Vec(PX(1), PX(lvl.Height - 2)), Vec(PX(lvl.Width - 2), PX(lvl.Height - 2)) >>

PatrolPoints(lvl) ==
    << Vec(PX(lvl.Width \div 4), PX(lvl.Height \div 4)),
       Vec(PX((3 * lvl.Width) \div 4), PX((3 * lvl.Height) \div 4)) >>

---------------------------------------------------------------------------
(* Specification SpecBFS: a distance map over an arbitrary small grid,     *)
(* rebuilt from arbitrary target positions.                                *)

BfsMaxW == 3
BfsMaxH == 3
BfsMaxWalls == 4

NumWalls(data) ==
    Cardinality({c \in (1 .. Len(data)) \X (1 .. Len(data[1])) : data[c[1]][c[2]] = "#"})

\* Every rectangular level definition of at most BfsMaxW x BfsMaxH cells
\* over wall and pellet cells, with at most BfsMaxWalls walls.
BfsLevelDatas ==
    { data \in UNION { [1 .. h -> [1 .. w -> {"#", "."}]] :
                         w \in 1 .. BfsMaxW, h \in 1 .. BfsMaxH } :
        NumWalls(data) <= BfsMaxWalls }

\* Target positions: the centre of every tile, and on each axis positions
\* outside the grid's pixel rectangle (less than a tile before it, more
\* than a tile before it, on its far edge and past it).
BfsCentre(i) == i * TileSize + TileSize \div 2

BfsOutside(n) == { -PX(30), -PX(5), n * TileSize, n * TileSize + PX(5) }

BfsTargets(lvl) ==
    { Vec(BfsCentre(x), BfsCentre(y)) : x \in 0 .. lvl.Width - 1, y \in 0 .. lvl.Height - 1 }
      \cup { Vec(o, BfsCentre(0)) : o \in BfsOutside(lvl.Width) }
      \cup { Vec(BfsCentre(0), o) : o \in BfsOutside(lvl.Height) }

\* The variables of the other specifications, at rest.
IdleBFS ==
    /\ distMap = NewDistanceMap(0, 0)
    /\ bfsQueue = << >>
    /\ bfsTarget = << >>

IdleLoad ==
    /\ loadIn = << >>
    /\ loadOut = [done |-> FALSE, ok |-> FALSE, level |-> NoLevel]

IdleConsume ==
    lastConsume = [called |-> FALSE, x |-> 0, y |-> 0, ret |-> FALSE, before |-> NoLevel]

IdleGame ==
    /\ game = [gameState |-> "None"]
    /\ hist = [eaten |-> 0, wins |-> 0, pelletsBefore |-> 0, frameBefore |-> 0,
               restart |-> FALSE, recreated |-> FALSE]

IdlePhys ==
    /\ ent = NewEntity(0, 0, 0)
    /\ prev = [op |-> "none", pre |-> NewEntity(0, 0, 0), mid |-> NewEntity(0, 0, 0)]
    /\ crashed = FALSE

InitBFS ==
    /\ \E data \in BfsLevelDatas : level = New(data).level
    /\ distMap = NewDistanceMap(level.Width, level.Height)
    /\ bfsQueue = << >>
    /\ bfsTarget = << >>
    /\ IdleLoad /\ IdleConsume /\ IdlePhys /\ IdleGame

\* g.distMap.BuildBFS(targetPos, g.level)
Rebuild ==
    \E targetPos \in BfsTargets(level) :
        LET r == BuildBFS(distMap, targetPos, level)
        IN  /\ distMap' = [distMap EXCEPT !.distances = r.distances]
            /\ bfsQueue' = r.queue
            /\ bfsTarget' = << targetPos >>
            /\ UNCHANGED <<level, loadVars, lastConsume, physVars, gameVars>>

NextBFS == Rebuild

SpecBFS == InitBFS /\ [][NextBFS]_vars

---------------------------------------------------------------------------
(* Shortest paths in the 4-connected graph of walkable tiles, defined by   *)
(* layers of tile sets (independently of the queue of BuildBFS).           *)

Adjacent(a, b) == Abs(a[1] - b[1]) + Abs(a[2] - b[2]) = 1

GridTiles(lvl) == (0 .. lvl.Width - 1) \X (0 .. lvl.Height - 1)

\* The tiles one walkable step away from the set S and not in seen.
NextLayer(lvl, S, seen) ==
    { n \in GridTiles(lvl) \ seen :
        CanWalk(lvl, n[1], n[2]) /\ \E s \in S : Adjacent(s, n) }

RECURSIVE LayerDist(_, _, _, _, _)
LayerDist(lvl, frontier, seen, k, t) ==
    IF t \in frontier THEN k
    ELSE IF frontier = {} THEN INF
    ELSE LayerDist(lvl, NextLayer(lvl, frontier, seen),
                   seen \cup NextLayer(lvl, frontier, seen), k + 1, t)

\* Length of a shortest path from tile src to tile t, INF when there is none.
ShortestLen(lvl, src, t) == LayerDist(lvl, {src}, {src}, 0, t)

BfsTargetTile == PosToTile(bfsTarget[1])

BfsBuilt == bfsTarget # << >>

\* C1: after BuildBFS from a position whose tile is walkable, GetDistance of
\* every tile reachable from the target tile is the length of a shortest
\* path in the 4-connected graph of walkable tiles, and GetDistance of every
\* unreachable tile (walls and tiles outside the grid included) is INF.
C1_BFSShortestPaths ==
    (BfsBuilt /\ CanWalk(level, BfsTargetTile.X, BfsTargetTile.Y)) =>
        \A x \in -1 .. level.Width, y \in -1 .. level.Height :
            GetDistance(distMap, x, y) =
                ShortestLen(level, <<BfsTargetTile.X, BfsTargetTile.Y>>, <<x, y>>)

\* A rebuild from a walkable target that left a tile three or more steps
\* away and a walkable tile that cannot be reached.
C1_Witness ==
    /\ BfsBuilt
    /\ CanWalk(level, BfsTargetTile.X, BfsTargetTile.Y)
    /\ \E t \in GridTiles(level) :
          GetDistance(distMap, t[1], t[2]) >= 3 /\ GetDistance(distMap, t[1], t[2]) < INF
    /\ \E t \in GridTiles(level) :
          CanWalk(level, t[1], t[2]) /\ GetDistance(distMap, t[1], t[2]) = INF

\* Scenario A: a 3x3 room of walkable tiles, rebuilt from its centre tile.
ScenarioA ==
    /\ BfsBuilt
    /\ level.Width = 3 /\ level.Height = 3
    /\ \A t \in GridTiles(level) : CanWalk(level, t[1], t[2])
    /\ bfsTarget[1] = TileCenter(1, 1)

Orthogonal8 == { <<1, 0>>, <<0, 1>>, <<2, 1>>, <<1, 2>> }

Diagonal8 == { <<0, 0>>, <<2, 0>>, <<0, 2>>, <<2, 2>> }

\* C2 as stated: in scenario A all 8 cells around the centre are at distance 1.
C2_AllEightAtOne ==
    ScenarioA => \A t \in Orthogonal8 \cup Diagonal8 : GetDistance(distMap, t[1], t[2]) = 1

\* C2 amended: in scenario A the 4 orthogonal neighbours of the centre are at
\* distance 1 and the 4 diagonal neighbours at distance 2 (the centre at 0).
C2_ScenarioA ==
    ScenarioA =>
        /\ GetDistance(distMap, 1, 1) = 0
        /\ \A t \in Orthogonal8 : GetDistance(distMap, t[1], t[2]) = 1
        /\ \A t \in Diagonal8 : GetDistance(distMap, t[1], t[2]) = 2

C2_Witness == ScenarioA /\ Len(bfsQueue) = 9

\* The target position of the last rebuild lies outside the grid's pixel
\* rectangle.
BfsTargetOutside ==
    \/ bfsTarget[1].X < 0
    \/ bfsTarget[1].Y < 0
    \/ bfsTarget[1].X >= level.Width * TileSize
    \/ bfsTarget[1].Y >= level.Height * TileSize

\* C15 as stated: after BuildBFS for a target position outside the grid's
\* pixel rectangle every cell of the field holds INF, and GetDistance is
\* INF for every tile coordinate outside the grid.
C15_OutsideTargetLeavesINF ==
    /\ (BfsBuilt /\ BfsTargetOutside) =>
          \A t \in GridTiles(level) : distMap.distances[t[2]][t[1]] = INF
    /\ \A x \in -2 .. level.Width + 1, y \in -2 .. level.Height + 1 :
          <<x, y>> \notin GridTiles(level) => GetDistance(distMap, x, y) = INF

\* C16 as stated: after BuildBFS for a target position inside the grid's
\* pixel rectangle, the target's tile being a wall or not, every wall cell
\* of the grid holds INF.
C16_WallCellsHoldINF ==
    (BfsBuilt /\ ~BfsTargetOutside) =>
        \A t \in GridTiles(level) :
            GetTile(level, t[1], t[2]) = TileWall => distMap.distances[t[2]][t[1]] = INF

---------------------------------------------------------------------------
(* Specification SpecLoad: model.New applied to an arbitrary small level   *)
(* definition, rows of unequal width and the empty definition included.    *)

LoadMaxRows == 2
LoadMaxLen == 2

LoadRowSet == UNION { [1 .. n -> {"#", ".", " "}] : n \in 0 .. LoadMaxLen }

LoadDatas == UNION { [1 .. h -> LoadRowSet] : h \in 0 .. LoadMaxRows }

InitLoad ==
    /\ loadIn \in LoadDatas
    /\ loadOut = [done |-> FALSE, ok |-> FALSE, level |-> NoLevel]
    /\ level = NoLevel
    /\ IdleBFS /\ IdleConsume /\ IdlePhys /\ IdleGame

\* level := model.New(loadIn); a panic leaves no level.
LoadLevel ==
    /\ ~loadOut.done
    /\ LET r == New(loadIn)
       IN  /\ loadOut' = [done |-> TRUE, ok |-> r.ok, level |-> r.level]
           /\ level' = r.level
    /\ UNCHANGED <<loadIn, bfsVars, lastConsume, physVars, gameVars>>

NextLoad == LoadLevel

SpecLoad == InitLoad /\ [][NextLoad]_vars

RowWidthMismatch(data) ==
    \E y \in 1 .. Len(data) : Len(data[y]) # Len(data[1])

\* C9 as stated: loading a definition with a row whose width differs from
\* the first row's produces no Level.
C9_MismatchIsFatal ==
    (loadOut.done /\ RowWidthMismatch(loadIn)) => ~loadOut.ok

\* What the code does with unequal rows: a row shorter than the first is a
\* run-time panic, a longer row is accepted and cut to the first row's width.
C9_CodeBehaviour ==
    (loadOut.done /\ Len(loadIn) > 0) =>
        (loadOut.ok <=> \A y \in 1 .. Len(loadIn) : Len(loadIn[y]) >= Len(loadIn[1]))

\* C10 as stated: loading the empty definition produces no Level.
C10_EmptyIsFatal ==
    (loadOut.done /\ Len(loadIn) = 0) => ~loadOut.ok

\* C10 amended: loading the empty definition is not an error; New builds the
\* level of DefaultLevelData: 21 x 11 cells, 109 pellets, each cell the tile
\* of the corresponding character.
C10_EmptyLoadsDefault ==
    (loadOut.done /\ Len(loadIn) = 0) =>
        /\ loadOut.ok
        /\ loadOut.level.Width = 21 /\ loadOut.level.Height = 11
        /\ loadOut.level.TotalPellets = 109
        /\ \A y \in 0 .. 10, x \in 0 .. 20 :
              loadOut.level.Grid[y][x] = TileOfChar(DefaultLevelData[y + 1][x + 1])

C10_Witness == loadOut.done /\ Len(loadIn) = 0 /\ level.Width = 21

---------------------------------------------------------------------------
(* Specification SpecConsume: Level.ConsumePellet called at arbitrary      *)
(* coordinates, in and out of bounds, of an arbitrary small level.         *)

ConsMaxW == 3
ConsMaxH == 1

ConsLevelDatas ==
    UNION { [1 .. h -> [1 .. w -> {"#", "."}]] : w \in 1 .. ConsMaxW, h \in 1 .. ConsMaxH }

InitConsume ==
    /\ \E data \in ConsLevelDatas : level = New(data).level
    /\ lastConsume = [called |-> FALSE, x |-> 0, y |-> 0, ret |-> FALSE, before |-> NoLevel]
    /\ IdleBFS /\ IdleLoad /\ IdlePhys /\ IdleGame

\* ret := level.ConsumePellet(x, y)
Consume ==
    \E x \in -1 .. level.Width, y \in -1 .. level.Height :
        LET r == ConsumePellet(level, x, y)
        IN  /\ level' = r.level
            /\ lastConsume' = [called |-> TRUE, x |-> x, y |-> y, ret |-> r.ret,
                               before |-> level]
            /\ UNCHANGED <<bfsVars, loadVars, physVars, gameVars>>

NextConsume == Consume

SpecConsume == InitConsume /\ [][NextConsume]_vars

InGrid(lvl, x, y) == x >= 0 /\ y >= 0 /\ x < lvl.Width /\ y < lvl.Height

\* C7: ConsumePellet(x, y) on a Pellet cell returns true and sets that cell,
\* and no other, to Empty; on any other cell or out of bounds it returns
\* false and leaves the level as it was; a second call on the same cell
\* returns false and changes nothing.
C7_ConsumePellet ==
    lastConsume.called =>
        LET b == lastConsume.before
            x == lastConsume.x
            y == lastConsume.y
        IN  /\ IF InGrid(b, x, y) /\ b.Grid[y][x] = TilePel
               THEN /\ lastConsume.ret
                    /\ level.Grid[y][x] = TileEmpty
                    /\ \A c \in GridTiles(b) :
                          c # <<x, y>> => level.Grid[c[2]][c[1]] = b.Grid[c[2]][c[1]]
                    /\ level = [b EXCEPT !.Grid[y][x] = TileEmpty]
               ELSE ~lastConsume.ret /\ level = b
            /\ ~ConsumePellet(level, x, y).ret
            /\ ConsumePellet(level, x, y).level = level

\* A pellet was consumed while another pellet is still in the grid, in a
\* level that already holds an Empty cell from an earlier consumption.
C7_Witness ==
    /\ lastConsume.called /\ lastConsume.ret
    /\ \E c \in GridTiles(level) : level.Grid[c[2]][c[1]] = TilePel
    /\ \E c \in GridTiles(level) :
          c # <<lastConsume.x, lastConsume.y>> /\ level.Grid[c[2]][c[1]] = TileEmpty


---------------------------------------------------------------------------
(* Specifications SpecPhys and SpecPhysOpen: one entity driven by any      *)
(* interleaving of TryTurn, the ghost policies, StepMove and               *)
(* ResetEntityPosition.  SpecPhys starts on levels enclosed by a wall      *)
(* border, SpecPhysOpen on levels whose edge cells may be walkable.        *)

PhysSide == 3
PhysMaxFree == 3

\* The cells of a PhysSide x PhysSide block, and the sets of at most
\* PhysMaxFree of them left walkable.
PhysCells == (1 .. PhysSide) \X (1 .. PhysSide)

\* The cells of F joined to the cell c by a chain of side-adjacent cells of F.
RECURSIVE JoinedTo(_, _)
JoinedTo(F, S) ==
    LET more == { c \in F \ S : \E d \in S : Adjacent(c, d) }
    IN  IF more = {} THEN S ELSE JoinedTo(F, S \cup more)

\* The walkable regions: connected, holding the block's first cell (which
\* lies on the left and top edge of the block), at most PhysMaxFree cells.
PhysFreeSets ==
    { F \in SUBSET PhysCells :
        /\ <<1, 1>> \in F
        /\ Cardinality(F) <= PhysMaxFree
        /\ JoinedTo(F, {<<1, 1>>}) = F }

\* The block alone: its outer cells lie on the edge of the grid.
PhysOpenData(F) ==
    [y \in 1 .. PhysSide |-> [x \in 1 .. PhysSide |->
        IF <<x, y>> \in F THEN "." ELSE "#"]]

\* The block inside a one-cell wall border.
PhysBorderedData(F) ==
    [y \in 1 .. PhysSide + 2 |-> [x \in 1 .. PhysSide + 2 |->
        IF <<x - 1, y - 1>> \in F THEN "." ELSE "#"]]

\* Speeds, in model units per tick: the player's 2.2 px and half a tile.
PhysSpeeds == { 220, TileSize \div 2 }

WalkableTiles(lvl) ==
    { t \in (0 .. lvl.Width - 1) \X (0 .. lvl.Height - 1) : CanWalk(lvl, t[1], t[2]) }

\* The player positions handed to the policies: walkable tile centres.
PhysTargets(lvl) == { TileCenter(t[1], t[2]) : t \in WalkableTiles(lvl) }

\* The distance field a policy is handed: built from the player's position.
FieldFor(lvl, targetPos) ==
    LET dm == NewDistanceMap(lvl.Width, lvl.Height)
    IN  [dm EXCEPT !.distances = BuildBFS(dm, targetPos, lvl).distances]

NoCall(e) == [op |-> "none", pre |-> e, mid |-> e]

InitPhysOn(datas) ==
    /\ \E data \in datas : level = New(data).level
    /\ \E t \in WalkableTiles(level), speed \in PhysSpeeds :
          ent = NewEntity(t[1], t[2], speed)
    /\ prev = NoCall(ent)
    /\ crashed = FALSE
    /\ IdleBFS /\ IdleLoad /\ IdleConsume /\ IdleGame

InitPhys == InitPhysOn({ PhysBorderedData(F) : F \in PhysFreeSets })

InitPhysOpen == InitPhysOn({ PhysOpenData(F) : F \in PhysFreeSets })

\* Dir was assigned a new non-zero value between pre and mid.
Turned(pre, mid) == ~VEq(mid.Dir, pre.Dir) /\ ~VEq(mid.Dir, ZeroVec)

\* The record of a call op that took the entity from pre through mid (right
\* after its assignment to Dir) to post.
CallRecord(op, pre, mid, post) ==
    IF Turned(pre, mid) THEN [op |-> op, pre |-> pre, mid |-> mid] ELSE NoCall(post)

\* A call that returns with the entity e, Dir being the last field it set.
Returns(op, e) ==
    /\ ent' = e
    /\ prev' = CallRecord(op, ent, e, e)
    /\ crashed' = FALSE
    /\ UNCHANGED <<level, bfsVars, loadVars, lastConsume, gameVars>>

\* A call that ends in a run-time panic.
Panics(op) ==
    /\ crashed' = TRUE
    /\ prev' = NoCall(ent)
    /\ UNCHANGED <<ent, level, bfsVars, loadVars, lastConsume, gameVars>>

\* physics.TryTurn(ent, wantDir, level)
Turn ==
    /\ ~crashed
    /\ \E wantDir \in { Directions[i] : i \in 1 .. 4 } \cup { ZeroVec } :
          Returns("TryTurn", TryTurn(ent, wantDir, level))

\* physics.StepMove(ent, level)
Step ==
    /\ ~crashed
    /\ ent' = StepMove(ent, level)
    /\ prev' = CallRecord("StepMove", ent, StepTurn(ent, level), StepMove(ent, level))
    /\ UNCHANGED <<crashed, level, bfsVars, loadVars, lastConsume, gameVars>>

\* physics.ResetEntityPosition(ent)
Reset ==
    /\ ~crashed
    /\ Returns("ResetEntityPosition", ResetEntityPosition(ent))

\* The sets below hold what a policy can return with, over the outcomes of
\* its random draws and the positions of the player.
PhysDirs == { Directions[i] : i \in 1 .. 4 } \cup { ZeroVec }

DumbPolicy ==
    /\ ~crashed
    /\ \E e \in { dumbGhostAI(ent, level, rnd) : rnd \in 0 .. 3 } :
          Returns("dumbGhostAI", e)

SlowPolicy ==
    /\ ~crashed
    /\ \E e \in UNION { LET dm == FieldFor(level, targetPos)
                        IN  { slowGhostAI(ent, dm, level, mistake, rnd) :
                                mistake \in BOOLEAN, rnd \in 0 .. 3 } :
                        targetPos \in PhysTargets(level) } :
          Returns("slowGhostAI", e)

NormalPolicy ==
    /\ ~crashed
    /\ \E e \in UNION { LET dm == FieldFor(level, targetPos)
                        IN  { normalGhostAI(ent, dm, level, rnd) : rnd \in 0 .. 3 } :
                        targetPos \in PhysTargets(level) } :
          Returns("normalGhostAI", e)

SmartPolicy ==
    /\ ~crashed
    /\ \E o \in UNION { LET dm == FieldFor(level, targetPos)
                        IN  { [panic |-> smartGhostAIPanics(ent, dm, level),
                               e |-> smartGhostAI(ent, dm, level, rnd)] : rnd \in 0 .. 3 } :
                        targetPos \in PhysTargets(level) } :
          IF o.panic THEN Panics("smartGhostAI") ELSE Returns("smartGhostAI", o.e)

GeniusPolicy ==
    /\ ~crashed
    /\ \E o \in UNION { LET dm == FieldFor(level, targetPos)
                        IN  { [panic |-> geniusGhostAIPanics(ent, dm, level),
                               e |-> geniusGhostAI(ent, dm, level, rnd)] : rnd \in 0 .. 3 } :
                        targetPos \in PhysTargets(level) } :
          IF o.panic THEN Panics("geniusGhostAI") ELSE Returns("geniusGhostAI", o.e)

ChasePolicy ==
    /\ ~crashed
    /\ \E e \in { ChaseAI(ent, level, playerPos) : playerPos \in PhysTargets(level) } :
          Returns("ChaseAI", e)

ScatterPolicy ==
    /\ ~crashed
    /\ \E e \in { ScatterAI(ent, level, ScatterCorners(level)[i]) : i \in 1 .. 4 } :
          Returns("ScatterAI", e)

FrightenedPolicy ==
    /\ ~crashed
    /\ \E e \in { FrightenedAI(ent, level, rnd) : rnd \in 0 .. 3 } :
          Returns("FrightenedAI", e)

PatrolPolicy ==
    /\ ~crashed
    /\ \E e \in { PatrolAI(ent, level, PatrolPoints(level), rnd) : rnd \in 0 .. 3 } :
          Returns("PatrolAI", e)

AmbushPolicy ==
    /\ ~crashed
    /\ \E e \in UNION { { AmbushAI(ent, level, playerPos, playerDir) : playerDir \in PhysDirs } :
                        playerPos \in PhysTargets(level) } :
          Returns("AmbushAI", e)

NextPhys ==
    \/ Turn
    \/ Step
    \/ Reset
    \/ DumbPolicy
    \/ SlowPolicy
    \/ NormalPolicy
    \/ SmartPolicy
    \/ GeniusPolicy
    \/ ChasePolicy
    \/ ScatterPolicy
    \/ FrightenedPolicy
    \/ PatrolPolicy
    \/ AmbushPolicy

SpecPhys == InitPhys /\ [][NextPhys]_vars

SpecPhysOpen == InitPhysOpen /\ [][NextPhys]_vars


\* Every cell on the edge of the grid is a wall.
Bordered(lvl) ==
    \A x \in 0 .. lvl.Width - 1, y \in 0 .. lvl.Height - 1 :
        (x = 0 \/ y = 0 \/ x = lvl.Width - 1 \/ y = lvl.Height - 1)
            => GetTile(lvl, x, y) = TileWall

\* The tile that contains the point v of the plane (floor, not PosToTile).
ContainingTile(v) == [X |-> v.X \div TileSize, Y |-> v.Y \div TileSize]

\* All four corners of the hitbox centred on pos lie in walkable tiles.
HitboxInWalkable(pos, lvl) ==
    \A i \in 1 .. 4 :
        CanWalk(lvl, ContainingTile(HitboxCorners(pos)[i]).X,
                     ContainingTile(HitboxCorners(pos)[i]).Y)

\* C3: no tunneling.  On a level whose border is all wall, an agent that
\* starts at the centre of a walkable tile with a speed of at most half a
\* tile per tick has, after any sequence of TryTurn, policy and StepMove
\* calls, all four corners of its hitbox in walkable tiles, and its
\* position is one that CanMoveTo accepts.
C3_NoTunneling ==
    (Bordered(level) /\ ent.Speed <= TileSize \div 2)
        => (HitboxInWalkable(ent.Pos, level) /\ CanMoveTo(ent.Pos, level))

\* An agent in motion, off the centre of its tile, whose next advance would
\* put a corner of its hitbox into a wall.
C3_Witness ==
    /\ Bordered(level)
    /\ ~VEq(ent.Dir, ZeroVec)
    /\ ent.Pos # CenterOf(ent.Pos)
    /\ ~HitboxInWalkable(VAdd(ent.Pos, VMul(ent.Dir, ent.Speed)), level)

\* C4: turn gating.  Whenever TryTurn, StepMove or a ghost policy gives Dir
\* a new non-zero value, the position at that moment is within 4 px on each
\* axis of the centre of its tile, the neighbour tile in the new direction
\* is walkable, and right after the assignment the position is that centre;
\* the call ends with the new direction or stopped.
C4_TurnGating ==
    prev.op # "none" =>
        /\ Abs(prev.pre.Pos.X - CenterOf(prev.pre.Pos).X) <= PX(4)
        /\ Abs(prev.pre.Pos.Y - CenterOf(prev.pre.Pos).Y) <= PX(4)
        /\ CanWalk(level, PosToTile(prev.pre.Pos).X + prev.mid.Dir.X,
                          PosToTile(prev.pre.Pos).Y + prev.mid.Dir.Y)
        /\ prev.mid.Pos = CenterOf(prev.pre.Pos)
        /\ (VEq(ent.Dir, prev.mid.Dir) \/ VEq(ent.Dir, ZeroVec))

\* StepMove turned a moving agent and the snap moved it.
C4_Witness ==
    /\ prev.op = "StepMove"
    /\ ~VEq(prev.pre.Dir, ZeroVec)
    /\ prev.pre.Pos # prev.mid.Pos
    /\ VEq(ent.Dir, prev.mid.Dir)

\* C8 as stated: no corner of the agent's hitbox is ever outside the
\* grid's pixel rectangle, whatever the grid, because StepMove rejects every
\* move that would put one there.
C8_HitboxInsideGrid ==
    \A i \in 1 .. 4 :
        /\ HitboxCorners(ent.Pos)[i].X >= 0
        /\ HitboxCorners(ent.Pos)[i].Y >= 0
        /\ HitboxCorners(ent.Pos)[i].X < level.Width * TileSize
        /\ HitboxCorners(ent.Pos)[i].Y < level.Height * TileSize

\* What the code guarantees instead: no corner passes the right or bottom
\* edge, and none goes a whole tile past the left or top edge.
C8_CodeBehaviour ==
    \A i \in 1 .. 4 :
        /\ HitboxCorners(ent.Pos)[i].X > -TileSize
        /\ HitboxCorners(ent.Pos)[i].Y > -TileSize
        /\ HitboxCorners(ent.Pos)[i].X < level.Width * TileSize
        /\ HitboxCorners(ent.Pos)[i].Y < level.Height * TileSize


\* The four grid-axis unit vectors and the zero vector.
AxisVectors == { Vec(0, 0), Vec(1, 0), Vec(-1, 0), Vec(0, 1), Vec(0, -1) }

\* C20: in every reachable state the entity's Dir and WantDir are each a
\* grid-axis unit vector or zero, whatever TryTurn calls (with the vectors
\* the key tests of Update produce), policy calls, StepMove calls and
\* resets came before.
C20_AxisDirections ==
    /\ ent.Dir \in AxisVectors
    /\ ent.WantDir \in AxisVectors

\* A moving entity with a pending turn to another axis.
C20_Witness ==
    /\ ~VEq(ent.Dir, ZeroVec)
    /\ ~VEq(ent.WantDir, ZeroVec)
    /\ ent.Dir.X * ent.WantDir.X + ent.Dir.Y * ent.WantDir.Y = 0
    /\ ent.Pos # CenterOf(ent.Pos)

\* The waypoint tiles of Game.updateGhostAI, (W/4, H/4) and (3W/4, 3H/4),
\* and the one of them farther, in Manhattan distance, from the tile.
PatrolWaypointTiles(lvl) ==
    << [X |-> lvl.Width \div 4, Y |-> lvl.Height \div 4],
       [X |-> (3 * lvl.Width) \div 4, Y |-> (3 * lvl.Height) \div 4] >>

PatrolFarther(lvl, tile) ==
    LET wp == PatrolWaypointTiles(lvl)
        d1 == Abs(tile.X - wp[1].X) + Abs(tile.Y - wp[1].Y)
        d2 == Abs(tile.X - wp[2].X) + Abs(tile.Y - wp[2].Y)
    IN  IF d1 < d2 THEN wp[2] ELSE wp[1]

\* The walkable neighbour directions of tile nearest to target.
NearestDirs(lvl, tile, target) ==
    { d \in { Directions[i] : i \in 1 .. 4 } :
        /\ CanWalk(lvl, tile.X + d.X, tile.Y + d.Y)
        /\ \A e \in { Directions[i] : i \in 1 .. 4 } :
              CanWalk(lvl, tile.X + e.X, tile.Y + e.Y) =>
                 ManhattanDist(d, tile, target) <= ManhattanDist(e, tile, target) }

\* C23: a PatrolAI call that takes a decision with the waypoints of
\* updateGhostAI leaves in WantDir a walkable direction nearest to the
\* waypoint tile that is farther from the ghost.
C23_PatrolSteersToFarther ==
    [][ (PatrolPolicy /\ ~PolicyGated(ent)
           /\ Len(WalkableDirs(level, PosToTile(ent.Pos))) > 0)
        => ent'.WantDir \in NearestDirs(level, PosToTile(ent.Pos),
                                        PatrolFarther(level, PosToTile(ent.Pos))) ]_vars

\* The tile n tiles ahead of the tile of pos along dir.
TileAhead(pos, dir, n) ==
    [X |-> PosToTile(pos).X + n * dir.X, Y |-> PosToTile(pos).Y + n * dir.Y]

\* C24: an AmbushAI call that takes a decision leaves in WantDir a walkable
\* direction nearest to the tile three tiles ahead of the player's tile
\* along the player's direction.
C24_AmbushThreeTilesAhead ==
    [][ \A playerPos \in PhysTargets(level), playerDir \in PhysDirs :
          (/\ AmbushPolicy
           /\ ent' = AmbushAI(ent, level, playerPos, playerDir)
           /\ ~PolicyGated(ent)
           /\ Len(WalkableDirs(level, PosToTile(ent.Pos))) > 0)
          => ent'.WantDir \in NearestDirs(level, PosToTile(ent.Pos),
                                          TileAhead(playerPos, playerDir, 3)) ]_vars

\* The values of WantDir a ChaseAI call on ghost can return with: the call
\* draws no random number, so there is one.
ChaseChoices(ghost, lvl, playerPos) == { ChaseAI(ghost, lvl, playerPos).WantDir }

\* C26: when ChaseAI takes a decision and two or more walkable neighbour
\* directions are tied for the least Manhattan distance to the player's
\* tile, each of the tied directions is a value the call can leave in
\* WantDir.
C26_TiedDirectionsPossible ==
    [][ \A playerPos \in PhysTargets(level) :
          (/\ ChasePolicy
           /\ ent' = ChaseAI(ent, level, playerPos)
           /\ ~PolicyGated(ent))
          => NearestDirs(level, PosToTile(ent.Pos), PosToTile(playerPos))
                \subseteq ChaseChoices(ent, level, playerPos) ]_vars

\* The values of WantDir a dumbGhostAI call on ghost can return with, over
\* the outcomes of rand.Intn.
DumbChoices(ghost, lvl) == { dumbGhostAI(ghost, lvl, rnd).WantDir : rnd \in 0 .. 3 }

\* C27: when dumbGhostAI takes a decision for a ghost, moving or stopped,
\* with a walkable neighbour, the values the call can leave in WantDir are
\* exactly the walkable neighbour directions.
C27_DumbChoosesAnyWalkable ==
    [][ (/\ DumbPolicy
         /\ ~PolicyGated(ent)
         /\ Len(WalkableDirs(level, PosToTile(ent.Pos))) > 0)
        => DumbChoices(ent, level)
             = { d \in { Directions[i] : i \in 1 .. 4 } :
                   CanWalk(level, PosToTile(ent.Pos).X + d.X, PosToTile(ent.Pos).Y + d.Y) } ]_vars

\* The entity has a turn pending, it stands within 4 px of the centre of
\* its tile on both axes, and the neighbour tile in WantDir is walkable.
TurnPending(e) == ~VEq(e.WantDir, ZeroVec) /\ ~VEq(e.WantDir, e.Dir)

TurnLegal(e, lvl) ==
    /\ Abs(e.Pos.X - ((e.Pos.X \div TileSize) * TileSize + TileSize \div 2)) <= PX(4)
    /\ Abs(e.Pos.Y - ((e.Pos.Y \div TileSize) * TileSize + TileSize \div 2)) <= PX(4)
    /\ lvl.Grid[(e.Pos.Y \div TileSize) + e.WantDir.Y][(e.Pos.X \div TileSize) + e.WantDir.X]
          # TileWall

\* C29: TryTurn with a non-zero direction leaves that direction in WantDir
\* whether or not it turned; StepMove never changes WantDir; a StepMove
\* call that finds a turn pending performs it if the entity is within 4 px
\* of its tile centre and the neighbour tile in WantDir is walkable (Dir
\* becomes WantDir at the tile centre and the entity advances from there),
\* and otherwise gives Dir no new direction.
C29_BufferedTurn ==
    [][ /\ \A wantDir \in { Directions[i] : i \in 1 .. 4 } :
              (Turn /\ ent' = TryTurn(ent, wantDir, level)) => VEq(ent'.WantDir, wantDir)
        /\ Step =>
              /\ ent'.WantDir = ent.WantDir
              /\ (TurnPending(ent) /\ TurnLegal(ent, level)) =>
                    /\ prev'.op = "StepMove"
                    /\ prev'.mid.Dir = ent.WantDir
                    /\ prev'.mid.Pos = CenterOf(ent.Pos)
                    /\ ent'.Dir = ent.WantDir
                    /\ ent'.Pos = VAdd(CenterOf(ent.Pos), VMul(ent.WantDir, ent.Speed))
              /\ (TurnPending(ent) /\ ~TurnLegal(ent, level)) =>
                    /\ prev'.op = "none"
                    /\ ent'.Dir \in { ent.Dir, ZeroVec } ]_vars

\* StepMove has performed a turn that was pending on a moving entity more
\* than 2 px from the tile centre, where TryTurn does not turn.
C29_Witness ==
    /\ prev.op = "StepMove"
    /\ ~VEq(prev.pre.Dir, ZeroVec)
    /\ TurnPending(prev.pre)
    /\ ~VeryNearCenter(prev.pre.Pos)
    /\ prev.mid.Dir = prev.pre.WantDir
    /\ ent.Dir = prev.pre.WantDir

---------------------------------------------------------------------------
\* Every walkable tile of lvl has a walkable neighbour.
NoIsolatedTile(lvl) ==
    \A t \in WalkableTiles(lvl) : ExitCount(lvl, t[1], t[2]) > 0

\* C36: on a level where every walkable tile has a walkable neighbour, the
\* entity's coordinate on the axis perpendicular to its Dir is that of the
\* centre of its tile, and an entity whose Dir is zero stands on the centre
\* of its tile on both axes.
C36_Alignment ==
    (NoIsolatedTile(level) /\ ~crashed) =>
        /\ ent.Dir.X # 0 => ent.Pos.Y = CenterOf(ent.Pos).Y
        /\ ent.Dir.Y # 0 => ent.Pos.X = CenterOf(ent.Pos).X
        /\ VEq(ent.Dir, ZeroVec) => ent.Pos = CenterOf(ent.Pos)

\* The entity has been stopped by a wall after a turn: it is at rest on the
\* centre of a tile that is not its spawn tile, in another row and another
\* column, after a StepMove call.
C36_Witness ==
    /\ NoIsolatedTile(level)
    /\ VEq(ent.Dir, ZeroVec)
    /\ ~VEq(ent.WantDir, ZeroVec)
    /\ PosToTile(ent.Pos).X # ent.SpawnTile.X
    /\ PosToTile(ent.Pos).Y # ent.SpawnTile.Y
    /\ ent.Pos = CenterOf(ent.Pos)

(* The game: Game.Update and what it calls.  A game is a record g with the *)
(* fields of the Go struct Game (debugMode and the renderer, which only    *)
(* drawing reads, are left out), the menu's two fields, defaultData (the   *)
(* value of the package variable model.DefaultLevelData) and log, the     *)
(* things the current Update call has done so far, in their order.         *)

\* The things the current Update call of g has done so far.
Events(g) == { g.log[i] : i \in 1 .. Len(g.log) }

PlayerSpeed == 220
CatchRadius == 800
AppleRadius == 600
SpeedBoostTime == 300

\* basePlayerSpeed * SpeedBoostMultiplier, the multiplier being 1.8.
Boosted(speed) == (speed * 18) \div 10

StateMenu == "Menu"
StatePlaying == "Playing"
StateWon == "Won"

DifficultyEasy == "Easy"
DifficultyMedium == "Medium"
DifficultyHard == "Hard"

Difficulties == << DifficultyEasy, DifficultyMedium, DifficultyHard >>

\* config.GetDifficultyConfig: GhostSpeeds and RecalcEvery.
GetDifficultyConfig(difficulty) ==
    CASE difficulty = DifficultyEasy ->
            [GhostSpeeds |-> << 100, 110, 100, 90 >>, RecalcEvery |-> 12]
      [] difficulty = DifficultyHard ->
            [GhostSpeeds |-> << 150, 160, 140, 150 >>, RecalcEvery |-> 6]
      [] OTHER ->
            [GhostSpeeds |-> << 130, 140, 120, 130 >>, RecalcEvery |-> 8]

\* Level.GetDefaultSpawnPoints
PlayerSpawn == [X |-> 1, Y |-> 1]

GhostSpawnsMutOnPlayer(lvl) ==
    << [X |-> lvl.Width - 2, Y |-> 1],
       [X |-> lvl.Width - 2, Y |-> lvl.Height - 2],
       [X |-> 1, Y |-> 1],
       [X |-> lvl.Width \div 2, Y |-> lvl.Height \div 2] >>

GhostSpawns(lvl) ==
    << [X |-> lvl.Width - 2, Y |-> 1],
       [X |-> lvl.Width - 2, Y |-> lvl.Height - 2],
       [X |-> 1, Y |-> lvl.Height - 2],
       [X |-> lvl.Width \div 2, Y |-> lvl.Height \div 2] >>

GetWalkableTilesMutColumnMajor(lvl) ==
    SelectSeq([k \in 1 .. lvl.Width * lvl.Height |->
                  [X |-> (k - 1) \div lvl.Height, Y |-> (k - 1) % lvl.Height]],
              LAMBDA t : CanWalk(lvl, t.X, t.Y))

\* Level.GetWalkableTiles: row by row, each row left to right.
GetWalkableTiles(lvl) ==
    SelectSeq([k \in 1 .. lvl.Width * lvl.Height |->
                  [X |-> (k - 1) % lvl.Width, Y |-> (k - 1) \div lvl.Width]],
              LAMBDA t : CanWalk(lvl, t.X, t.Y))

\* Level.AddApple followed by lastApple.Pos = TileCenter(tile).
NewApple(tile) == [Pos |-> TileCenter(tile.X, tile.Y), SpawnTile |-> tile]

\* Game.spawnApples: draws[1] is the outcome of rand.Intn(2), draws[i + 1]
\* the index of the tile the search loop of apple i ends on.  Every tile can
\* be that tile: the loop stops at a free tile that is not the player's
\* spawn, or gives up after 100 tries with the tile it drew last.
spawnApples(lvl, draws) ==
    LET walkableTiles == GetWalkableTiles(lvl)
        numApples == 2 + draws[1]
        n == IF numApples < Len(walkableTiles) THEN numApples ELSE Len(walkableTiles)
    IN  [lvl EXCEPT !.Apples =
            [i \in 1 .. n |-> NewApple(walkableTiles[(draws[i + 1] % Len(walkableTiles)) + 1])]]

\* Game.assignGhostAlgorithms
assignGhostAlgorithms(difficulty, nGhosts) ==
    LET algorithms ==
            CASE difficulty = DifficultyEasy -> << "Random", "Patrol", "Chase", "Frightened" >>
              [] difficulty = DifficultyMedium -> << "Chase", "Scatter", "Patrol", "Ambush" >>
              [] difficulty = DifficultyHard -> << "Chase", "Ambush", "Chase", "Scatter" >>
              [] OTHER -> << "Chase", "Scatter", "Patrol", "Ambush" >>
    IN  [i \in 1 .. nGhosts |-> algorithms[((i - 1) % Len(algorithms)) + 1]]

\* model.New(nil), with g.defaultData as DefaultLevelData.
NewDefaultLevel(g) == LoadRows(g.defaultData).level

\* Game.initLevel
initLevel(g, draws) ==
    LET lvl == NewDefaultLevel(g)
        diffConfig == GetDifficultyConfig(g.difficulty)
        spawns == GhostSpawns(lvl)
        nGhosts == IF Len(spawns) < Len(diffConfig.GhostSpeeds)
                   THEN Len(spawns) ELSE Len(diffConfig.GhostSpeeds)
        player == NewEntity(PlayerSpawn.X, PlayerSpawn.Y, PlayerSpeed)
        dm == NewDistanceMap(lvl.Width, lvl.Height)
    IN  [g EXCEPT
           !.level = spawnApples(lvl, draws),
           !.score = 0,
           !.pelletsCollected = 0,
           !.frame = 0,
           !.speedBoostFrames = 0,
           !.basePlayerSpeed = PlayerSpeed,
           !.recalcEvery = diffConfig.RecalcEvery,
           !.player = player,
           !.ghosts = [i \in 1 .. nGhosts |->
                         NewEntity(spawns[i].X, spawns[i].Y, diffConfig.GhostSpeeds[i])],
           !.ghostAlgorithms = assignGhostAlgorithms(g.difficulty, nGhosts),
           !.distMap = [dm EXCEPT !.distances = BuildBFS(dm, player.Pos, lvl).distances],
           !.log = Append(g.log, "initLevel")]

\* Game.resetPositions
resetPositions(g) ==
    [g EXCEPT !.player = ResetEntityPosition(g.player),
              !.ghosts = [i \in 1 .. Len(g.ghosts) |-> ResetEntityPosition(g.ghosts[i])]]

\* Game.resetLevel
resetLevelMutKeepGrid(g, draws) ==
    resetPositions(
        [g EXCEPT
           !.level = spawnApples(g.level, draws),
           !.score = 0,
           !.pelletsCollected = 0,
           !.speedBoostFrames = 0,
           !.basePlayerSpeed = PlayerSpeed,
           !.player = [g.player EXCEPT !.Speed = PlayerSpeed],
           !.log = Append(g.log, "resetLevel")])

resetLevel(g, draws) ==
    resetPositions(
        [g EXCEPT
           !.level = spawnApples(NewDefaultLevel(g), draws),
           !.score = 0,
           !.pelletsCollected = 0,
           !.speedBoostFrames = 0,
           !.basePlayerSpeed = PlayerSpeed,
           !.player = [g.player EXCEPT !.Speed = PlayerSpeed],
           !.log = Append(g.log, "resetLevel")])

\* Game.consumePellet
consumePelletMutAlways(g) ==
    LET tile == PosToTile(g.player.Pos)
        r == ConsumePellet(g.level, tile.X, tile.Y)
    IN  [g EXCEPT !.level = r.level, !.score = g.score + 1,
                  !.pelletsCollected = g.pelletsCollected + 1,
                  !.log = IF r.ret THEN Append(g.log, "consumed") ELSE g.log]

consumePelletMutNoCount(g) ==
    LET tile == PosToTile(g.player.Pos)
        r == ConsumePellet(g.level, tile.X, tile.Y)
    IN  IF r.ret
        THEN [g EXCEPT !.level = r.level, !.score = g.score + 1,
                       !.log = Append(g.log, "consumed")]
        ELSE g

consumePellet(g) ==
    LET tile == PosToTile(g.player.Pos)
        r == ConsumePellet(g.level, tile.X, tile.Y)
    IN  IF r.ret
        THEN [g EXCEPT !.level = r.level, !.score = g.score + 1,
                       !.pelletsCollected = g.pelletsCollected + 1,
                       !.log = Append(g.log, "consumed")]
        ELSE g

\* Game.applySpeedBoost
applySpeedBoost(g) ==
    [g EXCEPT !.speedBoostFrames = SpeedBoostTime,
              !.player = [g.player EXCEPT !.Speed = Boosted(g.basePlayerSpeed)]]

\* Game.checkAppleCollection: every apple within AppleRadius of the player
\* is removed, each adding one to the score and applying the boost.
checkAppleCollection(g) ==
    LET hit(apple) == CheckCollision(g.player, apple, AppleRadius)
        kept == SelectSeq(g.level.Apples, LAMBDA a : ~hit(a))
        taken == Len(g.level.Apples) - Len(kept)
    IN  IF taken = 0 THEN g
        ELSE applySpeedBoost([g EXCEPT !.level = [g.level EXCEPT !.Apples = kept],
                                       !.score = g.score + taken])

\* Game.updateSpeedBoost
updateSpeedBoostMutKeepSpeed(g) ==
    IF g.speedBoostFrames > 0
    THEN [g EXCEPT !.speedBoostFrames = g.speedBoostFrames - 1]
    ELSE g

updateSpeedBoost(g) ==
    IF g.speedBoostFrames > 0
    THEN IF g.speedBoostFrames - 1 = 0
         THEN [g EXCEPT !.speedBoostFrames = 0,
                        !.player = [g.player EXCEPT !.Speed = g.basePlayerSpeed]]
         ELSE [g EXCEPT !.speedBoostFrames = g.speedBoostFrames - 1]
    ELSE g

\* Game.checkCaught
checkCaught(g, draws) ==
    IF \E i \in 1 .. Len(g.ghosts) : CheckCollision(g.player, g.ghosts[i], CatchRadius)
    THEN resetLevel(g, draws)
    ELSE g

\* getAvailableSkillLevels
getAvailableSkillLevels(difficulty) ==
    CASE difficulty = DifficultyEasy -> << "Dumb", "Dumb", "Slow", "Slow", "Normal" >>
      [] difficulty = DifficultyMedium -> << "Slow", "Slow", "Normal", "Normal", "Smart" >>
      [] difficulty = DifficultyHard -> << "Normal", "Normal", "Smart", "Smart", "Slow" >>
      [] OTHER -> << "Normal" >>

\* GhostAI (where smartGhostAI does not panic): rnd.behavior is the outcome
\* of rand.Intn(len(availableLevels)), rnd.mistake that of
\* rand.Float32() < 0.3, rnd.dir that of the policy's own rand.Intn.
GhostAI(ghost, dm, lvl, difficulty, rnd) ==
    LET availableLevels == getAvailableSkillLevels(difficulty)
        chosenBehavior == availableLevels[(rnd.behavior % Len(availableLevels)) + 1]
    IN  CASE chosenBehavior = "Dumb" -> dumbGhostAI(ghost, lvl, rnd.dir)
          [] chosenBehavior = "Slow" -> slowGhostAI(ghost, dm, lvl, rnd.mistake, rnd.dir)
          [] chosenBehavior = "Smart" -> smartGhostAI(ghost, dm, lvl, rnd.dir)
          [] OTHER -> normalGhostAI(ghost, dm, lvl, rnd.dir)

\* corners[cornerIndex] of Game.updateGhostAI, the corner the "Scatter" case
\* passes to ScatterAI when called for ghost: cornerIndex is
\* len(g.ghosts) % len(corners).
scatterCorner(g, ghost) == ScatterCorners(g.level)[(Len(g.ghosts) % 4) + 1]

\* Game.updateGhostAI for one ghost, rnd being the random draws of the call.
updateGhostAI(g, ghost, algorithmName, rnd) ==
    CASE algorithmName = "Chase" -> ChaseAI(ghost, g.level, g.player.Pos)
      [] algorithmName = "Scatter" -> ScatterAI(ghost, g.level, scatterCorner(g, ghost))
      [] algorithmName = "Frightened" -> FrightenedAI(ghost, g.level, rnd.dir)
      [] algorithmName = "Patrol" -> PatrolAI(ghost, g.level, PatrolPoints(g.level), rnd.dir)
      [] algorithmName = "Ambush" -> AmbushAI(ghost, g.level, g.player.Pos, g.player.Dir)
      [] algorithmName = "Random" -> FrightenedAI(ghost, g.level, rnd.dir)
      [] OTHER -> GhostAI(ghost, g.distMap, g.level, g.difficulty, rnd)

\* ui.UI.Update: keys is the set of menu keys just pressed.  The result is
\* the menu's fields and the three values the call returns.
MenuUpdate(g, keys) ==
    LET n == 3
        o1 == IF "up" \in keys THEN (g.selectedOption - 1 + n) % n ELSE g.selectedOption
        o2 == IF "down" \in keys THEN (o1 + 1) % n ELSE o1
        enter == "enter" \in keys
        i == CHOOSE k \in 1 .. 3 : Difficulties[k] = g.selectedDiff
    IN  [selectedOption |-> o2,
         selectedDiff |-> IF enter /\ o2 = 1 THEN Difficulties[(i % 3) + 1]
                                             ELSE g.selectedDiff,
         newState |-> IF enter /\ o2 = 0 THEN StatePlaying ELSE StateMenu,
         shouldExit |-> enter /\ (o2 = 0 \/ o2 = 2)]

\* The win condition of Update.
WinReached(g) == g.pelletsCollected >= g.level.TotalPellets

\* The steps of a Playing tick of Update, in the order of the code.
\* g.frame++
tickFrame(g) == [g EXCEPT !.frame = g.frame + 1, !.log = Append(g.log, "tick")]

\* TryTurn for the want vector the four key tests leave.
tickInput(g, in) ==
    IF ~VEq(in.want, ZeroVec)
    THEN [g EXCEPT !.player = TryTurn(g.player, in.want, g.level)]
    ELSE g

\* The periodic BuildBFS.
tickRecalcMutOffByOne(g) ==
    IF g.frame % g.recalcEvery = 1
    THEN [g EXCEPT !.distMap.distances =
                       BuildBFS(g.distMap, g.player.Pos, g.level).distances,
                   !.log = Append(g.log, "rebuilt")]
    ELSE g

tickRecalc(g) ==
    IF g.frame % g.recalcEvery = 0
    THEN [g EXCEPT !.distMap.distances =
                       BuildBFS(g.distMap, g.player.Pos, g.level).distances,
                   !.log = Append(g.log, "rebuilt")]
    ELSE g

\* The loop over the ghosts that calls updateGhostAI.
tickGhostAI(g, in) ==
    [g EXCEPT !.ghosts =
        [i \in 1 .. Len(g.ghosts) |->
            IF i <= Len(g.ghostAlgorithms)
            THEN updateGhostAI(g, g.ghosts[i], g.ghostAlgorithms[i], in.rnd[i])
            ELSE g.ghosts[i]],
              !.log = Append(g.log, "policies")]

\* StepMove of the player, then of every ghost.
tickMove(g) ==
    [g EXCEPT !.player = StepMove(g.player, g.level),
              !.ghosts = [i \in 1 .. Len(g.ghosts) |-> StepMove(g.ghosts[i], g.level)]]

\* A Playing tick of Update up to updateSpeedBoost: frame, TryTurn, the
\* periodic BuildBFS, the ghosts' policies, every StepMove, consumePellet,
\* checkAppleCollection, updateSpeedBoost.
PlayingTick(g, in) ==
    updateSpeedBoost(checkAppleCollection(consumePellet(
        tickMove(tickGhostAI(tickRecalc(tickInput(tickFrame(g), in)), in)))))

\* The rest of a Playing tick: the win condition, checkCaught, the R key.
FinishTickMutCatchFirst(g, in) ==
    LET c == checkCaught(g, in.draws)
    IN  IF WinReached(c)
        THEN [c EXCEPT !.finalScore = c.score, !.gameState = StateWon,
                       !.log = Append(c.log, "won")]
        ELSE IF in.r THEN initLevel(c, in.draws) ELSE c

FinishTickMutNoFinalScore(g, in) ==
    IF WinReached(g)
    THEN [g EXCEPT !.gameState = StateWon, !.log = Append(g.log, "won")]
    ELSE LET c == checkCaught(g, in.draws)
         IN  IF in.r THEN initLevel(c, in.draws) ELSE c

FinishTick(g, in) ==
    IF WinReached(g)
    THEN [g EXCEPT !.finalScore = g.score, !.gameState = StateWon,
                   !.log = Append(g.log, "won")]
    ELSE LET c == checkCaught(g, in.draws)
         IN  IF in.r THEN initLevel(c, in.draws) ELSE c

\* Game.Update.  in holds what the call reads from outside: keys (menu keys
\* just pressed), esc and r (just pressed), want, rnd (the ghosts' random
\* draws) and draws (those of spawnApples).
UpdateMutWonTicks(g0, in) ==
    LET g == [g0 EXCEPT !.log = << >>]
        m == MenuUpdate(g, in.keys)
        gm == [g EXCEPT !.selectedOption = m.selectedOption,
                        !.selectedDiff = m.selectedDiff]
    IN  IF g.gameState = StateMenu
        THEN IF m.shouldExit /\ m.newState = StateMenu
             THEN [gm EXCEPT !.shouldExit = TRUE]
             ELSE IF m.newState = StatePlaying
             THEN initLevel([gm EXCEPT !.gameState = StatePlaying,
                                       !.difficulty = m.selectedDiff], in.draws)
             ELSE gm
        ELSE IF in.esc THEN [g EXCEPT !.gameState = StateMenu]
        ELSE IF g.gameState = StateWon
        THEN IF in.r THEN [initLevel(g, in.draws) EXCEPT !.gameState = StatePlaying]
             ELSE [g EXCEPT !.frame = g.frame + 1]
        ELSE IF g.gameState # StatePlaying THEN g
        ELSE FinishTick(PlayingTick(g, in), in)

Update(g0, in) ==
    LET g == [g0 EXCEPT !.log = << >>]
        m == MenuUpdate(g, in.keys)
        gm == [g EXCEPT !.selectedOption = m.selectedOption,
                        !.selectedDiff = m.selectedDiff]
    IN  IF g.gameState = StateMenu
        THEN IF m.shouldExit /\ m.newState = StateMenu
             THEN [gm EXCEPT !.shouldExit = TRUE]
             ELSE IF m.newState = StatePlaying
             THEN initLevel([gm EXCEPT !.gameState = StatePlaying,
                                       !.difficulty = m.selectedDiff], in.draws)
             ELSE gm
        ELSE IF in.esc THEN [g EXCEPT !.gameState = StateMenu]
        ELSE IF g.gameState = StateWon
        THEN IF in.r THEN [initLevel(g, in.draws) EXCEPT !.gameState = StatePlaying]
             ELSE g
        ELSE IF g.gameState # StatePlaying THEN g
        ELSE FinishTick(PlayingTick(g, in), in)

\* game.New
NewGame(defaultData) ==
    [gameState |-> StateMenu, shouldExit |-> FALSE,
     selectedOption |-> 0, selectedDiff |-> DifficultyEasy,
     difficulty |-> DifficultyEasy,
     level |-> NoLevel, player |-> NewEntity(0, 0, 0), ghosts |-> << >>,
     score |-> 0, pelletsCollected |-> 0, finalScore |-> 0, frame |-> 0,
     distMap |-> NewDistanceMap(0, 0), recalcEvery |-> 0,
     speedBoostFrames |-> 0, basePlayerSpeed |-> 0, ghostAlgorithms |-> << >>,
     defaultData |-> defaultData, log |-> << >>]

---------------------------------------------------------------------------
(* Specification SpecGame: the game from its menu, one Update call per     *)
(* step, on cut-down values of DefaultLevelData.                           *)

GameMaxPellets == 2
GameMaxFrame == 6
GameMaxEscFrame == 1

\* A 3 x 2 room inside a wall border; the first n cells of its upper row
\* hold pellets, the other cells are empty.  The five spawn points are the
\* room's cells other than (2, 1).
GameLevelData(n) ==
    [y \in 1 .. 4 |-> [x \in 1 .. 5 |->
        IF x = 1 \/ x = 5 \/ y = 1 \/ y = 4 THEN "#"
        ELSE IF y = 2 /\ x - 1 <= n THEN "."
        ELSE " "]]

\* The draws of spawnApples followed: two apples, on the tiles right of the
\* player's spawn; three apples, the first on the player's spawn (the tile
\* the search loop ends on when it gives up).
GameDraws == { << 0, 1, 2, 0 >>, << 1, 0, 1, 2 >> }

NoRnd == [behavior |-> 0, mistake |-> FALSE, dir |-> 0]

\* The outcomes of rand.Intn followed in the policy call of ghost i: the
\* policies that draw are FrightenedAI's callers, they draw only past the
\* gate, and of their draws those in GameDirDraws are followed.
GameDirDraws == { 0 }

DirDraws(g, i) ==
    IF g.ghostAlgorithms[i] \in { "Random", "Frightened" } /\ ~PolicyGated(g.ghosts[i])
       /\ Len(WalkableDirs(g.level, PosToTile(g.ghosts[i].Pos))) > 0
    THEN GameDirDraws \cap (0 .. Len(WalkableDirs(g.level, PosToTile(g.ghosts[i].Pos))) - 1)
    ELSE { 0 }

GameRnds(g) ==
    { [i \in 1 .. Len(g.ghosts) |-> [NoRnd EXCEPT !.dir = f[i]]] :
        f \in { h \in [1 .. Len(g.ghosts) -> 0 .. 3] :
                  \A i \in 1 .. Len(g.ghosts) : h[i] \in DirDraws(g, i) } }

NoInput ==
    [keys |-> {}, esc |-> FALSE, r |-> FALSE, want |-> ZeroVec,
     rnd |-> << NoRnd, NoRnd, NoRnd, NoRnd >>, draws |-> << 0, 0, 0, 0 >>]

\* What Update(g, in) can leave, over the draws of spawnApples when the
\* call creates a level.
UpdateOutcomes(g, in) ==
    LET probe == Update(g, in)
    IN  IF Events(probe) \cap { "initLevel", "resetLevel" } = {}
        THEN { probe }
        ELSE { Update(g, [in EXCEPT !.draws = d]) : d \in GameDraws }

CountPellets(lvl) ==
    Cardinality({ c \in (0 .. lvl.Width - 1) \X (0 .. lvl.Height - 1) :
                    GetTile(lvl, c[1], c[2]) = TilePel })

\* hist after an Update call that took the game from g to g2: eaten counts
\* the ConsumePellet calls that returned true, wins the times the phase was
\* set to Won, both since the level was last created; pelletsBefore is the
\* number of pellet cells before the call, frameBefore the tick counter
\* before it, restart whether R was just pressed, recreated whether it
\* created a level.
NextHist(h, g, g2, in) ==
    LET recreated == Events(g2) \cap { "initLevel", "resetLevel" } # {}
    IN  [eaten |-> IF recreated THEN 0
                   ELSE h.eaten + (IF "consumed" \in Events(g2) THEN 1 ELSE 0),
         wins |-> IF recreated THEN 0
                  ELSE h.wins + (IF "won" \in Events(g2) THEN 1 ELSE 0),
         pelletsBefore |-> CountPellets(g.level),
         frameBefore |-> g.frame,
         restart |-> in.r,
         recreated |-> recreated]

InitGame ==
    /\ \E n \in 1 .. GameMaxPellets : game = NewGame(GameLevelData(n))
    /\ hist = [eaten |-> 0, wins |-> 0, pelletsBefore |-> 0, frameBefore |-> 0,
               restart |-> FALSE, recreated |-> FALSE]
    /\ level = NoLevel
    /\ IdleBFS /\ IdleLoad /\ IdleConsume /\ IdlePhys

\* One call of Update with the input in.
Calls(in) ==
    /\ \E g2 \in UpdateOutcomes(game, in) :
          /\ game' = g2
          /\ hist' = NextHist(hist, game, g2, in)
    /\ UNCHANGED <<level, bfsVars, loadVars, lastConsume, physVars>>

\* Update while the menu is shown.  A run is followed up to the call that
\* sets shouldExit.
MenuStep ==
    /\ game.gameState = StateMenu
    /\ ~game.shouldExit
    /\ \E keys \in SUBSET { "up", "down", "enter" } : Calls([NoInput EXCEPT !.keys = keys])

\* Update with Escape just pressed, outside the menu: on the win screen, or
\* in the first GameMaxEscFrame ticks of a level.
EscapeStep ==
    /\ game.gameState \in { StatePlaying, StateWon }
    /\ game.gameState = StatePlaying => game.frame <= GameMaxEscFrame
    /\ Calls([NoInput EXCEPT !.esc = TRUE])

\* Update on the win screen.
WonStep ==
    /\ game.gameState = StateWon
    /\ \E r \in BOOLEAN : Calls([NoInput EXCEPT !.r = r])

\* Update while playing: one tick.
PlayStep ==
    /\ game.gameState = StatePlaying
    /\ game.frame < GameMaxFrame
    /\ \E want \in PhysDirs, r \in BOOLEAN, rnd \in GameRnds(game) :
          Calls([NoInput EXCEPT !.want = want, !.r = r, !.rnd = rnd])

NextGame ==
    \/ MenuStep
    \/ EscapeStep
    \/ WonStep
    \/ PlayStep

SpecGame == InitGame /\ [][NextGame]_vars


\* C5: on a level with TotalPellets = N, counting from the last creation of
\* the level, the phase is set to Won exactly once, by the Update call in
\* which ConsumePellet returns true for the Nth time: while Playing fewer
\* than N pellets have been consumed and no win has been signalled, a call
\* that signals the win has itself consumed a pellet, and once Won exactly
\* N pellets have been consumed and the win was signalled once.
C5_WinAtNthPellet ==
    /\ hist.wins <= 1
    /\ game.gameState = StatePlaying =>
          (hist.wins = 0 /\ hist.eaten < game.level.TotalPellets)
    /\ "won" \in Events(game) =>
          ("consumed" \in Events(game) /\ hist.eaten = game.level.TotalPellets)
    /\ game.gameState = StateWon =>
          (hist.wins = 1 /\ hist.eaten = game.level.TotalPellets)

\* The win is signalled on a level of two pellets or more, by a tick later
\* than the first.
C5_Witness ==
    /\ "won" \in Events(game)
    /\ game.gameState = StateWon
    /\ game.level.TotalPellets >= 2
    /\ game.frame > 1
    /\ hist.eaten = game.level.TotalPellets

\* C6: in every Playing state pelletsCollected plus the number of pellet
\* cells in the grid is TotalPellets; an Update call that creates no level
\* (neither initLevel nor resetLevel) never leaves more pellet cells than it
\* found; pelletsCollected never exceeds TotalPellets.
C6_MonotoneConsumption ==
    game.gameState \in { StateMenu, StatePlaying, StateWon } =>
        /\ game.gameState = StatePlaying =>
              game.pelletsCollected + CountPellets(game.level) = game.level.TotalPellets
        /\ ~hist.recreated => CountPellets(game.level) <= hist.pelletsBefore
        /\ game.pelletsCollected <= game.level.TotalPellets

\* A Playing state in which a pellet has been consumed and another is left.
C6_Witness ==
    /\ game.gameState = StatePlaying
    /\ "consumed" \in Events(game)
    /\ game.pelletsCollected >= 1
    /\ CountPellets(game.level) >= 1
    /\ CountPellets(game.level) < hist.pelletsBefore


\* The corner tiles of the level: (1,1), (W-2,1), (1,H-2), (W-2,H-2).
CornerTiles(lvl) ==
    << [X |-> 1, Y |-> 1], [X |-> lvl.Width - 2, Y |-> 1],
       [X |-> 1, Y |-> lvl.Height - 2], [X |-> lvl.Width - 2, Y |-> lvl.Height - 2] >>

\* C25: on a level whose four corner tiles are distinct, the corners that
\* updateGhostAI passes to ScatterAI for the ghosts of the game follow an
\* assignment of corners to ghosts that gives different corners to ghosts
\* whose indices differ modulo 4, and the tile ScatterAI minimises the
\* distance to is the corner tile passed.
C25_ScatterCornersDiffer ==
    (/\ game.gameState = StatePlaying
     /\ Len(game.ghosts) >= 2
     /\ Cardinality({ CornerTiles(game.level)[c] : c \in 1 .. 4 }) = 4)
    => \E a \in [1 .. Len(game.ghosts) -> 1 .. 4] :
          /\ \A i, j \in 1 .. Len(game.ghosts) : i % 4 # j % 4 => a[i] # a[j]
          /\ \A i \in 1 .. Len(game.ghosts) :
                /\ scatterCorner(game, game.ghosts[i]) = ScatterCorners(game.level)[a[i]]
                /\ PosToTile(scatterCorner(game, game.ghosts[i])) = CornerTiles(game.level)[a[i]]

\* The simulation fields of the game: tick counter, level (grid cells,
\* apples, pellet total), player and ghosts, score, pelletsCollected, the
\* speed boost, the distance map.
SimFields(g) ==
    << g.frame, g.level, g.player, g.ghosts, g.score, g.pelletsCollected,
       g.speedBoostFrames, g.basePlayerSpeed, g.distMap, g.recalcEvery,
       g.ghostAlgorithms >>

\* g is as initLevel leaves a game: the grid of the level definition, the
\* counters at zero, no boost, everybody on their spawn tile and at rest.
FreshLevel(g) ==
    /\ g.level.Grid = NewDefaultLevel(g).Grid
    /\ g.level.TotalPellets = NewDefaultLevel(g).TotalPellets
    /\ g.frame = 0 /\ g.score = 0 /\ g.pelletsCollected = 0
    /\ g.speedBoostFrames = 0
    /\ g.player = NewEntity(PlayerSpawn.X, PlayerSpawn.Y, PlayerSpeed)
    /\ \A i \in 1 .. Len(g.ghosts) :
          g.ghosts[i] = NewEntity(g.ghosts[i].SpawnTile.X, g.ghosts[i].SpawnTile.Y,
                                  GetDifficultyConfig(g.difficulty).GhostSpeeds[i])

\* C32: an Update call made while the phase is Menu or Won either leaves
\* every simulation field as it found it, or sets the phase to Playing and
\* leaves a level as initLevel creates it.
C32_IdlePhasesFreeze ==
    [][game.gameState \in { StateMenu, StateWon } =>
          \/ /\ SimFields(game') = SimFields(game)
             /\ game'.gameState \in { StateMenu, StateWon }
          \/ /\ game'.gameState = StatePlaying
             /\ "initLevel" \in Events(game')
             /\ FreshLevel(game')]_vars

\* The last Update call found the win screen and returned without doing
\* anything, on a game whose level had been played (ticks counted, score
\* above zero, the player away from its spawn tile).
C32_Witness ==
    /\ game.gameState = StateWon
    /\ game.log = << >>
    /\ game.frame > 1 /\ game.score > 0
    /\ PosToTile(game.player.Pos) # game.player.SpawnTile

\* The inputs an Update call can find in the state g: in the menu every set
\* of its keys with every state of Escape and R; on the win screen every
\* state of Escape and R; while playing every state of Escape and R with
\* every direction wanted and the random draws followed.
PhaseInputs(g) ==
    IF g.gameState = StateMenu
    THEN { [NoInput EXCEPT !.keys = k, !.esc = e, !.r = r, !.draws = d] :
             k \in SUBSET { "up", "down", "enter" }, e \in BOOLEAN, r \in BOOLEAN,
             d \in GameDraws }
    ELSE IF g.gameState = StateWon
    THEN { [NoInput EXCEPT !.esc = e, !.r = r, !.draws = d] :
             e \in BOOLEAN, r \in BOOLEAN, d \in GameDraws }
    ELSE { [NoInput EXCEPT !.esc = e, !.r = r, !.want = w, !.rnd = rnd,
                           !.draws = << 0, 1, 2, 0 >>] :
             e \in BOOLEAN, r \in BOOLEAN, w \in PhysDirs, rnd \in GameRnds(g) }

\* What the phase machine allows for one Update call that takes g to g2 on
\* the input in.
PhaseStepOK(g, in, g2) ==
    /\ (g2.gameState = StateWon /\ g.gameState # StateWon) =>
          /\ g.gameState = StatePlaying
          /\ "tick" \in Events(g2)
          /\ g2.pelletsCollected >= g2.level.TotalPellets
          /\ g2.finalScore = g2.score
    /\ g.gameState = StateWon =>
          /\ in.esc => (g2.gameState = StateMenu /\ SimFields(g2) = SimFields(g))
          /\ (in.r /\ ~in.esc) =>
                (g2.gameState = StatePlaying /\ "initLevel" \in Events(g2) /\ FreshLevel(g2))
          /\ (~in.r /\ ~in.esc) => g2 = [g EXCEPT !.log = << >>]
    /\ g.gameState = StateMenu =>
          /\ g2.gameState \in { StateMenu, StatePlaying }
          /\ g2.gameState = StatePlaying =>
                ("enter" \in in.keys /\ "initLevel" \in Events(g2) /\ FreshLevel(g2))
    /\ g.gameState = StatePlaying =>
          /\ g2.gameState \in { StatePlaying, StateWon, StateMenu }
          /\ g2.gameState = StateMenu <=> in.esc

\* C33: in every reachable state and for every input, Update follows the
\* phase machine: Won is entered only from Playing, by a tick that ends with
\* pelletsCollected >= TotalPellets, and with finalScore set to the score;
\* from Won, Escape leads to Menu, R (Escape not pressed with it) leads to
\* Playing on a level as initLevel creates it, and anything else leaves the
\* game as it is; Playing is entered from Menu only with such a level.
C33_PhaseMachine ==
    \A in \in PhaseInputs(game) : PhaseStepOK(game, in, Update(game, in))

\* R on the win screen has started a new level: the phase is Playing, the
\* call did nothing but initLevel, and the score of the game that was won
\* is still in finalScore.
C33_Witness ==
    /\ game.gameState = StatePlaying
    /\ game.log = << "initLevel" >>
    /\ hist.restart
    /\ game.finalScore > 0
    /\ game.score = 0

\* C14: rebuild cadence.  initLevel is the last thing an Update call does;
\* it leaves the tick counter at 0, the distance field built from the
\* player's position and every ghost at rest on its spawn tile, no policy
\* having acted on it.  A Playing tick starts by incrementing the counter,
\* runs with recalcEvery >= 1, and rebuilds the field if and only if the
\* incremented counter is a multiple of recalcEvery; the rebuild comes
\* right after the increment and right before the ghosts' policies.
C14_RebuildCadence ==
    /\ \A i \in 1 .. Len(game.log) :
          game.log[i] = "initLevel" =>
             /\ i = Len(game.log)
             /\ game.frame = 0
             /\ game.distMap = FieldFor(game.level, game.player.Pos)
             /\ \A k \in 1 .. Len(game.ghosts) :
                   game.ghosts[k] = ResetEntityPosition(game.ghosts[k])
    /\ "tick" \in Events(game) =>
          /\ game.log[1] = "tick"
          /\ game.recalcEvery >= 1
          /\ "rebuilt" \in Events(game) <=> (hist.frameBefore + 1) % game.recalcEvery = 0
          /\ "initLevel" \notin Events(game) => game.frame = hist.frameBefore + 1
          /\ IF "rebuilt" \in Events(game)
             THEN game.log[2] = "rebuilt" /\ game.log[3] = "policies"
             ELSE game.log[2] = "policies"
          /\ Cardinality({ i \in 1 .. Len(game.log) :
                             game.log[i] \in { "rebuilt", "policies" } })
                = IF "rebuilt" \in Events(game) THEN 2 ELSE 1

\* A tick whose counter reached recalcEvery rebuilt the field before the
\* ghosts' policies ran.
C14_Witness ==
    /\ game.gameState = StatePlaying
    /\ game.frame = game.recalcEvery
    /\ Len(game.log) >= 3
    /\ game.log[2] = "rebuilt"
    /\ game.log[3] = "policies"
    /\ game.distMap.distances[PosToTile(game.player.Pos).Y][PosToTile(game.player.Pos).X] = 0


---------------------------------------------------------------------------
(* Specification SpecChase: Scenario B.  A Playing game with the player at *)
(* rest on a tile centre and one ghost on the centre of a side-adjacent    *)
(* tile, at a speed of the difficulty table.  The ghost's algorithm name   *)
(* is one updateGhostAI has no case for, so that GhostAI drives it, and    *)
(* the draws followed are those with which GhostAI calls normalGhostAI.    *)
(* Each step is one Update call without input.                             *)

ChaseMaxFrame == 18

ChaseDraws == << 0, 1, 2, 0 >>

\* The game of the scenario on the level data, at the given difficulty,
\* with the ghost at the speed of the table's entry i.
ChaseGame(data, difficulty, i, playerTile, ghostTile) ==
    LET g == initLevel([NewGame(data) EXCEPT !.gameState = StatePlaying,
                                             !.difficulty = difficulty], ChaseDraws)
        player == NewEntity(playerTile[1], playerTile[2], PlayerSpeed)
    IN  [g EXCEPT !.player = player,
                  !.ghosts = << NewEntity(ghostTile[1], ghostTile[2],
                                          GetDifficultyConfig(difficulty).GhostSpeeds[i]) >>,
                  !.ghostAlgorithms = << "Normal" >>,
                  !.distMap = FieldFor(g.level, player.Pos),
                  !.log = << >>]

\* The draws of rand.Intn in GhostAI that select GhostSkillLevelNormal.
ChaseRnds(g) ==
    { [NoRnd EXCEPT !.behavior = b] :
        b \in { k \in 0 .. Len(getAvailableSkillLevels(g.difficulty)) - 1 :
                  getAvailableSkillLevels(g.difficulty)[k + 1] = "Normal" } }

InitChase ==
    /\ \E F \in PhysFreeSets, d \in 1 .. 3, i \in 1 .. 4 :
          \E p \in F, q \in F :
             /\ Adjacent(p, q)
             /\ game = ChaseGame(PhysBorderedData(F), Difficulties[d], i, p, q)
    /\ hist = [ghost |-> game.ghosts[1]]
    /\ level = NoLevel
    /\ IdleBFS /\ IdleLoad /\ IdleConsume /\ IdlePhys

\* One tick; hist keeps the ghost as the tick found it.  A run is followed
\* up to the tick in which checkCaught resets the level.
ChaseStep ==
    /\ game.gameState = StatePlaying
    /\ "resetLevel" \notin Events(game)
    /\ game.frame < ChaseMaxFrame
    /\ \E r \in ChaseRnds(game) :
          game' = Update(game, [NoInput EXCEPT !.rnd = << r, r, r, r >>,
                                               !.draws = ChaseDraws])
    /\ hist' = [ghost |-> game.ghosts[1]]
    /\ UNCHANGED <<level, bfsVars, loadVars, lastConsume, physVars>>

NextChase == ChaseStep

SpecChase == InitChase /\ [][NextChase]_vars

\* The unit vector from the ghost's spawn tile to the player's tile, and the
\* distance between the two entities along it.
ChaseToward(g) ==
    Vec(PosToTile(g.player.Pos).X - g.ghosts[1].SpawnTile.X,
        PosToTile(g.player.Pos).Y - g.ghosts[1].SpawnTile.Y)

ChaseDistance(player, ghost) ==
    Abs(player.Pos.X - ghost.Pos.X) + Abs(player.Pos.Y - ghost.Pos.Y)

ChaseCaught == "resetLevel" \in Events(game)

---------------------------------------------------------------------------
(* Specification SpecSmart: Scenario C.  One ghost driven by smartGhostAI  *)
(* and StepMove on a level inside a wall border, the distance field being  *)
(* the one BuildBFS leaves for a player on a walkable tile centre; the     *)
(* walkable cells need not be connected, so a neighbour of the ghost may   *)
(* be out of the player's reach.                                           *)

SmartW == 3
SmartMaxFree == 4

\* A block of two rows.
SmartCells == (1 .. SmartW) \X (1 .. 2)

SmartFreeSets == { F \in SUBSET SmartCells : F # {} /\ Cardinality(F) <= SmartMaxFree }

\* The cells of F walkable inside a one-cell wall border.
SmartData(F) ==
    [y \in 1 .. 4 |-> [x \in 1 .. SmartW + 2 |->
        IF <<x - 1, y - 1>> \in F THEN "." ELSE "#"]]

\* Half a tile per tick, and the 1.0 px of the difficulty table.
SmartSpeeds == { TileSize \div 2, 100 }

InitSmart ==
    /\ \E F \in SmartFreeSets : level = New(SmartData(F)).level
    /\ \E targetPos \in PhysTargets(level) :
          /\ distMap = FieldFor(level, targetPos)
          /\ bfsTarget = << targetPos >>
    /\ bfsQueue = << >>
    /\ \E t \in WalkableTiles(level), speed \in SmartSpeeds :
          ent = NewEntity(t[1], t[2], speed)
    /\ prev = NoCall(ent)
    /\ crashed = FALSE
    /\ IdleLoad /\ IdleConsume /\ IdleGame

\* smartGhostAI(ent, distMap, level): prev keeps the ghost as the call
\* found it and as it left it.
SmartDecide ==
    /\ ~crashed
    /\ IF smartGhostAIPanics(ent, distMap, level)
       THEN /\ crashed' = TRUE
            /\ prev' = NoCall(ent)
            /\ UNCHANGED ent
       ELSE \E rnd \in 0 .. 3 :
               /\ ent' = smartGhostAI(ent, distMap, level, rnd)
               /\ prev' = [op |-> "smartGhostAI", pre |-> ent, mid |-> ent']
               /\ UNCHANGED crashed
    /\ UNCHANGED <<level, bfsVars, loadVars, lastConsume, gameVars>>

\* physics.StepMove(ent, level)
SmartStep ==
    /\ ~crashed
    /\ ent' = StepMove(ent, level)
    /\ prev' = NoCall(ent')
    /\ UNCHANGED <<crashed, level, bfsVars, loadVars, lastConsume, gameVars>>

NextSmart ==
    \/ SmartDecide
    \/ SmartStep

SpecSmart == InitSmart /\ [][NextSmart]_vars

\* The walkable neighbour tiles of the tile t, as directions.
SmartNeighbours(lvl, t) ==
    { d \in PhysDirs \ { ZeroVec } : CanWalk(lvl, t.X + d.X, t.Y + d.Y) }

\* The adjusted score of the tile t: its oracle distance, plus 5 if exactly
\* one of its four neighbours is walkable.
SmartScore(lvl, dm, t) ==
    GetDistance(dm, t.X, t.Y)
        + (IF Cardinality(SmartNeighbours(lvl, t)) = 1 THEN 5 ELSE 0)

\* The last call was a smartGhostAI call that chose among its options.
SmartDecided ==
    /\ prev.op = "smartGhostAI"
    /\ ~PolicyGated(prev.pre)
    /\ SmartNeighbours(level, PosToTile(prev.pre.Pos)) # {}

\* C12: whenever smartGhostAI makes a decision, the direction it leaves in
\* WantDir leads to a walkable neighbour whose adjusted score is minimal
\* among the walkable neighbours of the ghost's tile; a neighbour with one
\* exit is never chosen when another has a strictly lower adjusted score.
C12_SmartChoosesMinimal ==
    SmartDecided =>
        LET t == PosToTile(prev.pre.Pos)
            chosen == VAdd(t, ent.WantDir)
        IN  /\ ent.WantDir \in SmartNeighbours(level, t)
            /\ \A d \in SmartNeighbours(level, t) :
                  SmartScore(level, distMap, chosen) <= SmartScore(level, distMap, VAdd(t, d))
            /\ Cardinality(SmartNeighbours(level, chosen)) = 1 =>
                  ~\E d \in SmartNeighbours(level, t) :
                      SmartScore(level, distMap, VAdd(t, d))
                          < SmartScore(level, distMap, chosen)

\* A ghost heading for a dead-end tile that is nearer to the player than
\* the tile behind it chooses to reverse.
C12_Witness ==
    /\ SmartDecided
    /\ ~VEq(prev.pre.Dir, ZeroVec)
    /\ VEq(ent.WantDir, VMul(prev.pre.Dir, -1))
    /\ LET t == PosToTile(prev.pre.Pos)
           ahead == VAdd(t, prev.pre.Dir)
       IN  /\ CanWalk(level, ahead.X, ahead.Y)
           /\ Cardinality(SmartNeighbours(level, ahead)) = 1
           /\ GetDistance(distMap, ahead.X, ahead.Y)
                 < GetDistance(distMap, t.X + ent.WantDir.X, t.Y + ent.WantDir.Y)


---------------------------------------------------------------------------
(* Specification SpecTight: the game of SpecGame, on its levels and on     *)
(* levels of three rows, a corridor of three cells inside a wall border.   *)
(* On these GetDefaultSpawnPoints puts the third ghost on the player's     *)
(* spawn tile.                                                             *)

\* The first n cells of the corridor hold pellets.
TightLevelData(n) ==
    [y \in 1 .. 3 |-> [x \in 1 .. 5 |->
        IF x = 1 \/ x = 5 \/ y = 1 \/ y = 3 THEN "#"
        ELSE IF x - 1 <= n THEN "."
        ELSE " "]]

InitTight ==
    /\ \E n \in 1 .. GameMaxPellets :
          \E data \in { TightLevelData(n), GameLevelData(n) } : game = NewGame(data)
    /\ hist = [eaten |-> 0, wins |-> 0, pelletsBefore |-> 0, frameBefore |-> 0,
               restart |-> FALSE, recreated |-> FALSE]
    /\ level = NoLevel
    /\ IdleBFS /\ IdleLoad /\ IdleConsume /\ IdlePhys

SpecTight == InitTight /\ [][NextGame]_vars

\* Some ghost is within the catch radius of the player.
GhostInReach(g) ==
    \E i \in 1 .. Len(g.ghosts) : CheckCollision(g.player, g.ghosts[i], CatchRadius)

\* C13 as stated: the catch is resolved before the win condition, so the
\* win is never signalled by a tick that leaves a ghost within the catch
\* radius of the player.
C13_CatchBeforeWin ==
    "won" \in Events(game) => ~GhostInReach(game)

\* C13 amended: the win condition is evaluated after the pellet pickup and
\* before the catch check.  A tick that consumes the last pellet signals
\* the win and resets nothing, wherever the ghosts are; a tick that leaves
\* the game Playing without having created a level leaves no ghost within
\* the catch radius.
C13_WinBeforeCatch ==
    /\ ("consumed" \in Events(game) /\ hist.pelletsBefore = 1) => "won" \in Events(game)
    /\ "won" \in Events(game) =>
          /\ game.gameState = StateWon
          /\ "resetLevel" \notin Events(game)
          /\ CountPellets(game.level) = 0
    /\ (game.gameState = StatePlaying /\ game.frame >= 1
          /\ Events(game) \cap { "initLevel", "resetLevel" } = {}) => ~GhostInReach(game)

\* The win is signalled by a tick that consumed the last pellet with a
\* ghost within the catch radius of the player.
C13_Witness ==
    /\ "won" \in Events(game)
    /\ "consumed" \in Events(game)
    /\ GhostInReach(game)

\* The entity is on the centre of its spawn tile, Dir and WantDir zero.
AtSpawn(e) ==
    /\ e.Pos = TileCenter(e.SpawnTile.X, e.SpawnTile.Y)
    /\ VEq(e.Dir, ZeroVec)
    /\ VEq(e.WantDir, ZeroVec)

C18_RestartReinitialises ==
    ("tick" \in Events(game) /\ hist.restart) =>
        /\ game.gameState = StatePlaying
        /\ game.frame = 0
        /\ game.score = 0
        /\ CountPellets(game.level) = game.level.TotalPellets
        /\ AtSpawn(game.player)
        /\ \A i \in 1 .. Len(game.ghosts) : AtSpawn(game.ghosts[i])


---------------------------------------------------------------------------
(* Specification SpecReset: physics.ResetEntityPosition called, any number *)
(* of times, on an entity in an arbitrary state.                           *)

ResetMaxTile == 2

\* Coordinates on the first tiles of an axis: a tile's edge, its centre and
\* one pixel before the next tile.
ResetCoords ==
    { t * TileSize + o : t \in 0 .. ResetMaxTile,
                         o \in { 0, TileSize \div 2, TileSize - PX(1) } }

InitReset ==
    /\ \E x \in ResetCoords, y \in ResetCoords, dir \in PhysDirs, wantDir \in PhysDirs,
          sx \in 0 .. ResetMaxTile, sy \in 0 .. ResetMaxTile :
          ent = [NewEntity(sx, sy, PlayerSpeed) EXCEPT
                     !.Pos = Vec(x, y), !.Dir = dir, !.WantDir = wantDir]
    /\ prev = NoCall(ent)
    /\ crashed = FALSE
    /\ level = NoLevel
    /\ IdleBFS /\ IdleLoad /\ IdleConsume /\ IdleGame

\* physics.ResetEntityPosition(ent): prev keeps the entity as the call
\* found it (pre) and as the first call of the run left it (mid).
ResetCall ==
    /\ ent' = ResetEntityPosition(ent)
    /\ prev' = [op |-> "ResetEntityPosition", pre |-> ent,
                mid |-> IF prev.op = "none" THEN ent' ELSE prev.mid]
    /\ UNCHANGED <<crashed, level, bfsVars, loadVars, lastConsume, gameVars>>

NextReset == ResetCall

SpecReset == InitReset /\ [][NextReset]_vars

\* C19: ResetEntityPosition leaves Pos on the centre of SpawnTile and Dir
\* and WantDir zero, changes neither Speed nor SpawnTile, and is
\* idempotent: after a second call, or any later one, the entity is as the
\* first call left it.
C19_ResetIdempotent ==
    prev.op = "ResetEntityPosition" =>
        /\ ent.Pos.X = ent.SpawnTile.X * TileSize + TileSize \div 2
        /\ ent.Pos.Y = ent.SpawnTile.Y * TileSize + TileSize \div 2
        /\ ent.Dir = ZeroVec
        /\ ent.WantDir = ZeroVec
        /\ ent.Speed = prev.pre.Speed
        /\ ent.SpawnTile = prev.pre.SpawnTile
        /\ ent = prev.mid

\* A second call: the call found the entity as the first call had left it.
C19_Witness ==
    /\ prev.op = "ResetEntityPosition"
    /\ prev.pre = prev.mid
    /\ ent = prev.mid
    /\ ent.SpawnTile.X > 0

---------------------------------------------------------------------------
(* Specification SpecWalk: Level.GetWalkableTiles called on an arbitrary   *)
(* small level of Wall, Pellet and Empty cells.                            *)

WalkMaxW == 3
WalkMaxH == 2

WalkLevelDatas ==
    UNION { [1 .. h -> [1 .. w -> {"#", ".", " "}]] : w \in 1 .. WalkMaxW, h \in 1 .. WalkMaxH }

InitWalk ==
    /\ \E data \in WalkLevelDatas : level = New(data).level
    /\ hist = [called |-> FALSE, tiles |-> << >>]
    /\ game = [gameState |-> "None"]
    /\ IdleBFS /\ IdleLoad /\ IdleConsume /\ IdlePhys

\* tiles := level.GetWalkableTiles()
WalkCall ==
    /\ hist' = [called |-> TRUE, tiles |-> GetWalkableTiles(level)]
    /\ UNCHANGED <<level, game, bfsVars, loadVars, lastConsume, physVars>>

NextWalk == WalkCall

SpecWalk == InitWalk /\ [][NextWalk]_vars

\* C21: GetWalkableTiles returns every cell of the grid that is not a Wall
\* exactly once and no Wall cell, ordered by ascending y and, within a row,
\* by ascending x.
C21_WalkableRowMajor ==
    hist.called =>
        /\ \A x \in 0 .. level.Width - 1, y \in 0 .. level.Height - 1 :
              Cardinality({ i \in 1 .. Len(hist.tiles) :
                              hist.tiles[i].X = x /\ hist.tiles[i].Y = y })
                 = IF level.Grid[y][x] = TileWall THEN 0 ELSE 1
        /\ \A i \in 1 .. Len(hist.tiles) :
              /\ hist.tiles[i].X \in 0 .. level.Width - 1
              /\ hist.tiles[i].Y \in 0 .. level.Height - 1
        /\ \A i, j \in 1 .. Len(hist.tiles) :
              i < j => \/ hist.tiles[i].Y < hist.tiles[j].Y
                       \/ /\ hist.tiles[i].Y = hist.tiles[j].Y
                          /\ hist.tiles[i].X < hist.tiles[j].X

\* A two-row level with a Wall and free cells in both rows and in two
\* columns has been enumerated.
C21_Witness ==
    /\ hist.called
    /\ level.Height = 2 /\ level.Width >= 2
    /\ \E x \in 0 .. level.Width - 1 : level.Grid[0][x] = TileWall
    /\ Len(hist.tiles) >= 3
    /\ hist.tiles[1].Y = 0 /\ hist.tiles[Len(hist.tiles)].Y = 1

---------------------------------------------------------------------------
(* Specification SpecGate: one ghost at a configured ghost speed, taken    *)
(* through the ticks of Game.Update: its policy call (FrightenedAI, every  *)
(* outcome of the draw) followed by StepMove.                              *)

GateMaxDecisions == 3

GateSpeeds ==
    { GetDifficultyConfig(Difficulties[d]).GhostSpeeds[i] : d \in 1 .. 3, i \in 1 .. 4 }

\* The policy calls made on a moving ghost that passed the gate, counted
\* over the ticks the ghost has spent in its present tile without leaving.
GateCount(h, ghost) ==
    LET tile == PosToTile(ghost.Pos)
        decides == ~PolicyGated(ghost) /\ ~VEq(ghost.Dir, ZeroVec)
        before == IF tile = h.tile THEN h.decisions ELSE 0
    IN  [tile |-> tile, decisions |-> before + (IF decides THEN 1 ELSE 0)]

InitGate ==
    /\ \E F \in PhysFreeSets : level = New(PhysBorderedData(F)).level
    /\ \E t \in WalkableTiles(level), speed \in GateSpeeds :
          ent = NewEntity(t[1], t[2], speed)
    /\ prev = NoCall(ent)
    /\ crashed = FALSE
    /\ hist = [tile |-> PosToTile(ent.Pos), decisions |-> 0]
    /\ game = [gameState |-> "None"]
    /\ IdleBFS /\ IdleLoad /\ IdleConsume

\* One tick of the ghost: entities.FrightenedAI(ent, ...) in updateGhostAI,
\* then physics.StepMove(ent, level).
GateTick ==
    \E rnd \in 0 .. 3 :
        /\ hist.decisions < GateMaxDecisions
        /\ ent' = StepMove(FrightenedAI(ent, level, rnd), level)
        /\ prev' = [op |-> "FrightenedAI", pre |-> ent,
                    mid |-> FrightenedAI(ent, level, rnd)]
        /\ hist' = GateCount(hist, ent)
        /\ UNCHANGED <<crashed, level, game, bfsVars, loadVars, lastConsume>>

NextGate == GateTick

SpecGate == InitGate /\ [][NextGate]_vars

\* C22: while a moving ghost stays in a tile, its policy call passes the
\* gate on at most one tick and returns at once on every other tick.
C22_OncePerTileVisit == hist.decisions <= 1

---------------------------------------------------------------------------
(* Specification SpecPursuit: one ChaseAI ghost at a configured ghost      *)
(* speed and a player that stands still on a tile centre, on a connected   *)
(* walkable region.  Each step is the ghost's share of a tick of           *)
(* Game.Update: ChaseAI, StepMove, then the test of checkCaught.  The      *)
(* ticks never stop coming while the player is not caught.                 *)

PursuitMaxFree == 5
PursuitMaxTicks == 512

\* The connected walkable regions of at most PursuitMaxFree cells.
PursuitFreeSets ==
    { F \in SUBSET PhysCells :
        /\ <<1, 1>> \in F
        /\ Cardinality(F) <= PursuitMaxFree
        /\ JoinedTo(F, {<<1, 1>>}) = F }

\* The test of checkCaught for the ghost and the player standing at pos.
PursuitCaught(ghost, pos) ==
    CheckCollision([Pos |-> pos], ghost, CatchRadius)

\* The ticks after which the ghost is remembered in hist.mark: 1, 2, 4, 8 ...
PursuitMarks == { 2 ^ k : k \in 0 .. 16 }

\* hist after the tick that left the ghost as post: ticks counts the ticks,
\* mark is the ghost as it was after the last tick of PursuitMarks, and
\* looped tells that the ghost, not having caught the player, is again as
\* it was at mark.  ChaseAI and StepMove draw nothing and the player stands
\* still, so from then on the ticks repeat themselves.
PursuitHist(h, post) ==
    [player |-> h.player,
     caught |-> PursuitCaught(post, h.player),
     ticks  |-> h.ticks + 1,
     looped |-> ~PursuitCaught(post, h.player) /\ h.mark = << post >>,
     mark   |-> IF h.ticks + 1 \in PursuitMarks THEN << post >> ELSE h.mark]

InitPursuit ==
    /\ \E F \in PursuitFreeSets : level = New(PhysBorderedData(F)).level
    /\ \E t \in WalkableTiles(level), p \in WalkableTiles(level), speed \in GateSpeeds :
          /\ ent = NewEntity(t[1], t[2], speed)
          /\ hist = [player |-> TileCenter(p[1], p[2]),
                     caught |-> PursuitCaught(ent, TileCenter(p[1], p[2])),
                     ticks |-> 0, looped |-> FALSE, mark |-> << >>]
    /\ prev = NoCall(ent)
    /\ crashed = FALSE
    /\ game = [gameState |-> "None"]
    /\ IdleBFS /\ IdleLoad /\ IdleConsume

\* One tick while the player has not been caught.  A run is followed up to
\* the tick that is found to repeat an earlier one.
PursuitTick ==
    /\ ~hist.caught
    /\ ~hist.looped
    /\ hist.ticks < PursuitMaxTicks
    /\ \E mid \in { ChaseAI(ent, level, hist.player) } :
          \E post \in { StepMove(mid, level) } :
             /\ ent' = post
             /\ prev' = [op |-> "ChaseAI", pre |-> ent, mid |-> mid]
             /\ hist' = PursuitHist(hist, post)
    /\ UNCHANGED <<crashed, level, game, bfsVars, loadVars, lastConsume>>

NextPursuit == PursuitTick

SpecPursuit == InitPursuit /\ [][NextPursuit]_vars /\ WF_vars(PursuitTick)

\* C28: the ghost comes within the catch radius of the player: it is never
\* found, the player not caught, in a state it was in on an earlier tick,
\* from which the same ticks would follow for ever.
C28_ChaseNeverLoops == ~hist.looped

---------------------------------------------------------------------------
(* Specification SpecHalt: the entity of SpecPhys under TryTurn,           *)
(* FrightenedAI and StepMove, with hist keeping the last rejection of a    *)
(* move by StepMove for as long as no new legal direction has been given:  *)
(* pre is the entity as the rejecting call found it, fresh tells that no   *)
(* call has been made since, later that StepMove has been called since.    *)

NoHalt == [stopped |-> FALSE, fresh |-> FALSE, later |-> FALSE, pre |-> << >>]

\* StepMove(e, lvl) rejects its move: past the pending turn Dir is not zero
\* and CanMoveTo refuses the next position.
StepRejects(e, lvl) ==
    /\ ~VEq(StepTurn(e, lvl).Dir, ZeroVec)
    /\ ~CanMoveTo(VAdd(StepTurn(e, lvl).Pos,
                       VMul(StepTurn(e, lvl).Dir, StepTurn(e, lvl).Speed)), lvl)

\* The entity e holds a direction whose neighbour tile is walkable.
HoldsLegalDir(e, lvl) ==
    ~VEq(e.WantDir, ZeroVec) /\ CanTurn(e.Pos, e.WantDir, lvl)

InitHalt ==
    /\ \E F \in PhysFreeSets : level = New(PhysBorderedData(F)).level
    /\ \E t \in WalkableTiles(level), speed \in PhysSpeeds \cup GateSpeeds :
          ent = NewEntity(t[1], t[2], speed)
    /\ prev = NoCall(ent)
    /\ crashed = FALSE
    /\ hist = NoHalt
    /\ game = [gameState |-> "None"]
    /\ IdleBFS /\ IdleLoad /\ IdleConsume

\* A call that gave the entity a direction: the rejection is forgotten once
\* the direction held is a legal one.
HaltGiven(e) ==
    /\ ent' = e
    /\ prev' = CallRecord("direction", ent, e, e)
    /\ hist' = IF e.WantDir # ent.WantDir /\ HoldsLegalDir(e, level)
               THEN NoHalt
               ELSE [hist EXCEPT !.fresh = FALSE]
    /\ UNCHANGED <<crashed, level, game, bfsVars, loadVars, lastConsume>>

\* physics.TryTurn(ent, wantDir, level)
HaltTurn ==
    \E wantDir \in PhysDirs : HaltGiven(TryTurn(ent, wantDir, level))

\* entities.FrightenedAI(ent, ...)
HaltPolicy ==
    \E e \in { FrightenedAI(ent, level, rnd) : rnd \in 0 .. 3 } : HaltGiven(e)

\* physics.StepMove(ent, level)
HaltStep ==
    /\ ent' = StepMove(ent, level)
    /\ prev' = CallRecord("StepMove", ent, StepTurn(ent, level), StepMove(ent, level))
    /\ hist' = IF StepRejects(ent, level)
               THEN [stopped |-> TRUE, fresh |-> TRUE, later |-> FALSE, pre |-> << ent >>]
               ELSE [hist EXCEPT !.fresh = FALSE, !.later = hist.stopped]
    /\ UNCHANGED <<crashed, level, game, bfsVars, loadVars, lastConsume>>

NextHalt ==
    \/ HaltTurn
    \/ HaltPolicy
    \/ HaltStep

SpecHalt == InitHalt /\ [][NextHalt]_vars

\* C30: the StepMove call that rejects a move leaves the coordinate on the
\* axis of Dir at the centre of the entity's tile, the other coordinate and
\* WantDir as the call found them, and Dir zero; on every later call, until
\* a new legal direction is given, the entity is at that position with Dir
\* zero.
C30_RejectionStops ==
    hist.stopped =>
        LET pre == hist.pre[1]
            cx == (pre.Pos.X \div TileSize) * TileSize + TileSize \div 2
            cy == (pre.Pos.Y \div TileSize) * TileSize + TileSize \div 2
        IN  /\ ent.Dir = ZeroVec
            /\ ent.Pos.X = IF pre.Dir.X # 0 THEN cx ELSE pre.Pos.X
            /\ ent.Pos.Y = IF pre.Dir.Y # 0 THEN cy ELSE pre.Pos.Y
            /\ hist.fresh => ent.WantDir = pre.WantDir
            /\ ~VEq(pre.Dir, ZeroVec)

\* A StepMove call has found the entity stopped by an earlier rejection
\* that moved it back to the tile centre.
C30_Witness ==
    /\ hist.stopped
    /\ hist.later
    /\ hist.pre[1].Pos # ent.Pos
    /\ ent.Dir = ZeroVec

---------------------------------------------------------------------------
(* Specification SpecBuild: one call of DistanceMap.BuildBFS taken through *)
(* its loop, one iteration of "for head < len(queue)" per step, on an      *)
(* arbitrary small grid of Wall and Pellet cells. hist holds the position  *)
(* of the call (phase) and the local variable head (1-based).              *)

BuildMaxW == 3
BuildMaxH == 2

BuildLevelDatas ==
    UNION { [1 .. h -> [1 .. w -> {"#", "."}]] : w \in 1 .. BuildMaxW, h \in 1 .. BuildMaxH }

InitBuild ==
    /\ \E data \in BuildLevelDatas : level = New(data).level
    /\ distMap = NewDistanceMap(level.Width, level.Height)
    /\ bfsQueue = << >>
    /\ bfsTarget = << >>
    /\ hist = [phase |-> "idle", head |-> 0]
    /\ game = [gameState |-> "None"]
    /\ IdleLoad /\ IdleConsume /\ IdlePhys

\* The call up to the loop: every cell set to infinity, the target tile
\* computed, the early return or the first node enqueued with distance 0.
BuildEnter ==
    /\ hist.phase = "idle"
    /\ \E targetPos \in BfsTargets(level) :
          LET cleared == [y \in 0 .. distMap.height - 1 |->
                            [x \in 0 .. distMap.width - 1 |-> INF]]
              t == PosToTile(targetPos)
          IN  /\ bfsTarget' = << targetPos >>
              /\ IF t.X < 0 \/ t.Y < 0 \/ t.X >= distMap.width \/ t.Y >= distMap.height
                 THEN /\ distMap' = [distMap EXCEPT !.distances = cleared]
                      /\ bfsQueue' = << >>
                      /\ hist' = [phase |-> "done", head |-> 0]
                 ELSE /\ distMap' = [distMap EXCEPT !.distances = [cleared EXCEPT ![t.Y][t.X] = 0]]
                      /\ bfsQueue' = << [x |-> t.X, y |-> t.Y] >>
                      /\ hist' = [phase |-> "loop", head |-> 1]
    /\ UNCHANGED <<level, game, loadVars, lastConsume, physVars>>

\* One iteration of the loop: current := queue[head]; head++; the four
\* directions relaxed.
BuildIter ==
    /\ hist.phase = "loop"
    /\ hist.head <= Len(bfsQueue)
    /\ \E st \in { BFSVisit(distMap, level,
                            [distances |-> distMap.distances, queue |-> bfsQueue],
                            bfsQueue[hist.head]) } :
          /\ distMap' = [distMap EXCEPT !.distances = st.distances]
          /\ bfsQueue' = st.queue
    /\ hist' = [hist EXCEPT !.head = hist.head + 1]
    /\ UNCHANGED <<level, bfsTarget, game, loadVars, lastConsume, physVars>>

\* The loop condition fails: BuildBFS returns.
BuildExit ==
    /\ hist.phase = "loop"
    /\ hist.head > Len(bfsQueue)
    /\ hist' = [hist EXCEPT !.phase = "done"]
    /\ UNCHANGED <<level, bfsVars, game, loadVars, lastConsume, physVars>>

NextBuild == BuildEnter \/ BuildIter \/ BuildExit

\* The call runs on one goroutine: a step that can be taken is taken.
SpecBuild == InitBuild /\ [][NextBuild]_vars /\ WF_vars(NextBuild)

BuildDist(n) == distMap.distances[n.y][n.x]

\* The queue holds every node enqueued so far, each written its distance
\* when it was appended: no node twice, distances in queue order never
\* decreasing.
BuildQueueOrdered ==
    \A i, j \in 1 .. Len(bfsQueue) :
        i < j => /\ bfsQueue[i] # bfsQueue[j]
                 /\ BuildDist(bfsQueue[i]) <= BuildDist(bfsQueue[j])

\* When the call has returned from the loop, the nodes of the queue are the
\* target tile and the tiles that walkable steps reach from it.
BuildQueueComplete ==
    (hist.phase = "done" /\ bfsQueue # << >>) =>
        \A t \in GridTiles(level) :
            (ShortestLen(level, <<BfsTargetTile.X, BfsTargetTile.Y>>, t) < INF)
              <=> (\E i \in 1 .. Len(bfsQueue) : bfsQueue[i] = [x |-> t[1], y |-> t[2]])

\* A step inside the loop leaves every distance that is below infinity as
\* it is, and what it appends to the queue are the cells it wrote.
BuildWritesOnce ==
    hist.phase = "loop" =>
        /\ \A t \in GridTiles(level) :
              distMap.distances[t[2]][t[1]] # INF =>
                  distMap'.distances[t[2]][t[1]] = distMap.distances[t[2]][t[1]]
        /\ Len(bfsQueue') >= Len(bfsQueue)
        /\ SubSeq(bfsQueue', 1, Len(bfsQueue)) = bfsQueue
        /\ Len(bfsQueue') - Len(bfsQueue) =
              Cardinality({ t \in GridTiles(level) :
                  distMap'.distances[t[2]][t[1]] # distMap.distances[t[2]][t[1]] })

\* C31: BuildBFS terminates on every grid; during the call every tile
\* reachable from the target is enqueued and written its distance exactly
\* once (never enqueued again, never written again), and the distances are
\* written in non-decreasing order.
C31_BuildTerminatesOnce ==
    /\ [](BuildQueueOrdered /\ BuildQueueComplete)
    /\ [][BuildWritesOnce]_vars
    /\ <>(hist.phase = "done")

\* The call has returned after its loop enqueued five or more tiles on a
\* grid where some tile has two neighbours nearer to the target (a tile the
\* loop meets twice), and a walkable tile was left unreached.
C31_Witness ==
    /\ hist.phase = "done"
    /\ Len(bfsQueue) >= 5
    /\ hist.head = Len(bfsQueue) + 1
    /\ \E t \in GridTiles(level) :
          Cardinality({ n \in GridTiles(level) :
              /\ Adjacent(n, t)
              /\ distMap.distances[n[2]][n[1]] + 1 = distMap.distances[t[2]][t[1]] }) = 2

---------------------------------------------------------------------------
(* Specification SpecHunt: one normalGhostAI ghost and a player that       *)
(* stands still on a tile centre, on a connected walkable region, with the *)
(* distance map built from the player's position.  Each step is the        *)
(* ghost's share of a tick of Game.Update: normalGhostAI with one outcome  *)
(* of its draw, StepMove, then the test of checkCaught.  hist holds the    *)
(* player's position, whether the test succeeded, and the ticks counted.   *)

HuntMaxFree == 4

\* The connected walkable regions of at most HuntMaxFree cells.
HuntFreeSets ==
    { F \in SUBSET PhysCells :
        /\ <<1, 1>> \in F
        /\ Cardinality(F) <= HuntMaxFree
        /\ JoinedTo(F, {<<1, 1>>}) = F }

\* Speeds strictly between 1.0 and 2.0 px per tick: the configured ghost
\* speeds in that range and the two ends of the range.
HuntSpeeds == { s \in GateSpeeds : PX(1) < s /\ s < PX(2) } \cup { PX(1) + 1, PX(2) - 1 }

\* The ticks a walk at more than 1 px per tick needs to cross every
\* walkable tile of lvl.
HuntLimit(lvl) == (TileSize \div PX(1)) * Cardinality(WalkableTiles(lvl))

\* The oracle distance of the tile the entity e is on.
HuntDistance(e) == GetDistance(distMap, PosToTile(e.Pos).X, PosToTile(e.Pos).Y)

InitHunt ==
    /\ \E F \in HuntFreeSets : level = New(PhysBorderedData(F)).level
    /\ \E t \in WalkableTiles(level), p \in WalkableTiles(level), speed \in HuntSpeeds :
          /\ ent = NewEntity(t[1], t[2], speed)
          /\ hist = [player |-> TileCenter(p[1], p[2]),
                     caught |-> PursuitCaught(ent, TileCenter(p[1], p[2])),
                     ticks |-> 0]
    /\ distMap = FieldFor(level, hist.player)
    /\ bfsQueue = << >>
    /\ bfsTarget = << >>
    /\ prev = NoCall(ent)
    /\ crashed = FALSE
    /\ game = [gameState |-> "None"]
    /\ IdleLoad /\ IdleConsume

\* One tick while the player has not been caught.
HuntTick ==
    /\ ~hist.caught
    /\ hist.ticks < HuntLimit(level)
    /\ \E rnd \in 0 .. 3 :
          \E mid \in { normalGhostAI(ent, distMap, level, rnd) } :
             \E post \in { StepMove(mid, level) } :
                /\ ent' = post
                /\ prev' = [op |-> "normalGhostAI", pre |-> ent, mid |-> mid]
                /\ hist' = [hist EXCEPT !.caught = PursuitCaught(post, hist.player),
                                        !.ticks = hist.ticks + 1]
    /\ UNCHANGED <<crashed, level, game, bfsVars, loadVars, lastConsume>>

NextHunt == HuntTick

\* Update is called on every frame: the ticks never stop coming.
SpecHunt == InitHunt /\ [][NextHunt]_vars /\ WF_vars(HuntTick)

\* C34: every tick that takes the ghost to another tile takes it to a tile
\* whose oracle distance is one less, and a ghost that has not caught the
\* player has made fewer ticks than HuntLimit, whatever the draws of the
\* tie-breaks.  A tick is therefore possible for as long as the player is
\* not caught, the ticks of SpecHunt never stop coming, and their count
\* cannot pass HuntLimit: the ghost comes within the catch radius.
C34_HuntCatches ==
    /\ [][PosToTile(ent'.Pos) # PosToTile(ent.Pos) =>
             GetDistance(distMap, PosToTile(ent'.Pos).X, PosToTile(ent'.Pos).Y)
               = HuntDistance(ent) - 1]_vars
    /\ [](~hist.caught => hist.ticks < HuntLimit(level))

\* The ghost has caught a player that stood two tiles away round a corner,
\* from a spawn tile where two directions were tied for the least distance,
\* after more ticks than a straight tile takes.
C34_Witness ==
    /\ hist.caught
    /\ hist.ticks > TileSize \div PX(2)
    /\ GetDistance(distMap, ent.SpawnTile.X, ent.SpawnTile.Y) = 2
    /\ Cardinality({ i \in 1 .. 4 :
          GetDistance(distMap, ent.SpawnTile.X + Directions[i].X,
                               ent.SpawnTile.Y + Directions[i].Y) = 1 }) = 2

---------------------------------------------------------------------------
(* The skill-level policies of internal/logic/intelligence, which the      *)
(* earlier variant of Game.Update calls through intelligence.GhostAI on    *)
(* every tick: they are gated by NearCenter, and they set Dir and snap Pos *)
(* to the tile centre themselves.                                          *)

\* intelligence.normalGhostAI
intelligenceNormalGhostAI(ghost, dm, lvl, rnd) ==
    LET tile == PosToTile(ghost.Pos)
        options == NormalOptions(ghost, dm, lvl)
        best == BestOptions(options)
    IN  IF ~NearCenter(ghost.Pos) /\ ~VEq(ghost.Dir, ZeroVec) THEN ghost
        ELSE IF Len(options) = 0
        THEN IF ~VEq(ghost.Dir, ZeroVec)
                /\ CanWalk(lvl, tile.X + ghost.Dir.X, tile.Y + ghost.Dir.Y)
             THEN [ghost EXCEPT !.Pos = TileCenter(tile.X, tile.Y)]
             ELSE [ghost EXCEPT !.Dir = ZeroVec, !.WantDir = ZeroVec]
        ELSE [ghost EXCEPT !.WantDir = best[(rnd % Len(best)) + 1].dir,
                           !.Dir = best[(rnd % Len(best)) + 1].dir,
                           !.Pos = TileCenter(tile.X, tile.Y)]

(* Specification SpecSnap: one ghost of skill level Normal at a configured *)
(* ghost speed on a connected walkable region, the distance map built from *)
(* a player position.  Each step is the ghost's share of a tick of the     *)
(* earlier Update: the policy with one outcome of its draw, then StepMove. *)
(* hist holds the tile the ghost started on, whether it has left it, and   *)
(* whether the number of ticks made is odd; a run is followed up to the    *)
(* tick that takes the ghost to another tile.                              *)

SnapMaxFree == 3

InitSnap ==
    /\ \E F \in { G \in HuntFreeSets : Cardinality(G) <= SnapMaxFree } : level = New(PhysBorderedData(F)).level
    /\ \E t \in WalkableTiles(level), p \in WalkableTiles(level), speed \in GateSpeeds :
          /\ ent = NewEntity(t[1], t[2], speed)
          /\ distMap = FieldFor(level, TileCenter(p[1], p[2]))
          /\ hist = [start |-> PosToTile(ent.Pos), left |-> FALSE, odd |-> FALSE]
    /\ bfsQueue = << >>
    /\ bfsTarget = << >>
    /\ prev = NoCall(ent)
    /\ crashed = FALSE
    /\ game = [gameState |-> "None"]
    /\ IdleLoad /\ IdleConsume

SnapTick ==
    /\ ~hist.left
    /\ \E rnd \in 0 .. 3 :
          \E mid \in { intelligenceNormalGhostAI(ent, distMap, level, rnd) } :
             \E post \in { StepMove(mid, level) } :
                /\ ent' = post
                /\ prev' = [op |-> "normalGhostAI", pre |-> ent, mid |-> mid]
                /\ hist' = [hist EXCEPT !.left = PosToTile(post.Pos) # hist.start,
                                        !.odd = ~hist.odd]
    /\ UNCHANGED <<crashed, level, game, bfsVars, loadVars, lastConsume>>

NextSnap == SnapTick

\* Update is called on every frame: the ticks never stop coming.
SpecSnap == InitSnap /\ [][NextSnap]_vars /\ WF_vars(SnapTick)

\* C35: a ghost whose tile has a walkable neighbour eventually leaves the
\* tile it is on: its tile coordinate eventually changes.
C35_LeavesTile ==
    (ExitCount(level, hist.start.X, hist.start.Y) > 0) ~> hist.left

\* What the code does instead: the ghost never leaves the tile it started
\* on, and after every tick it stands one tick's advance from the centre,
\* inside the policy's gate, which snaps it back.
C35_CodeBehaviour ==
    /\ ~hist.left
    /\ PosToTile(ent.Pos) = hist.start
    /\ NearCenter(ent.Pos)
    /\ Abs(ent.Pos.X - CenterOf(ent.Pos).X) + Abs(ent.Pos.Y - CenterOf(ent.Pos).Y)
          \in { 0, ent.Speed }

---------------------------------------------------------------------------
(* Specification SpecBoost: the game on a level whose walkable cells are a *)
(* corridor of three cells, from the player's spawn tile to the right, and *)
(* one cell apart from it; the corridor's second cell and the cell apart   *)
(* hold pellets, and spawnApples puts an apple on the corridor's second    *)
(* and third cell.  The four ghost spawn tiles lie outside the corridor:   *)
(* no ghost reaches the player, and the level cannot be won.  Each step is *)
(* one Update call while playing, the Right key held or not, R just        *)
(* pressed or not, for more ticks than a speed boost lasts.                *)

BoostMaxFrame == 320

\* The rows "#######", "# . ###", "#####.#", "#######".
BoostLevelData ==
    [y \in 1 .. 4 |-> [x \in 1 .. 7 |->
        IF (y = 2 /\ x = 3) \/ (y = 3 /\ x = 6) THEN "."
        ELSE IF y = 2 /\ x \in { 2, 4 } THEN " "
        ELSE "#"]]

BoostMaxWait == 3

BoostDraws == << 0, 1, 2, 0 >>

\* The directions wanted: none, or to the right; a player still on its spawn
\* position after BoostMaxWait ticks stays there.
BoostWants(g) ==
    IF g.frame < BoostMaxWait \/ g.player.Pos # TileCenter(PlayerSpawn.X, PlayerSpawn.Y)
    THEN { ZeroVec, Directions[1] }
    ELSE { ZeroVec }

InitBoost ==
    /\ game = [initLevel([NewGame(BoostLevelData) EXCEPT !.gameState = StatePlaying],
                         BoostDraws) EXCEPT !.log = << >>]
    /\ hist = [eaten |-> 0, wins |-> 0, pelletsBefore |-> 0, frameBefore |-> 0,
               restart |-> FALSE, recreated |-> FALSE]
    /\ level = NoLevel
    /\ IdleBFS /\ IdleLoad /\ IdleConsume /\ IdlePhys

BoostStep ==
    /\ game.gameState = StatePlaying
    /\ game.frame < BoostMaxFrame
    /\ \E want \in BoostWants(game), r \in BOOLEAN, rnd \in GameRnds(game) :
          /\ game' = Update(game, [NoInput EXCEPT !.want = want, !.r = r, !.rnd = rnd,
                                                  !.draws = BoostDraws])
          /\ hist' = NextHist(hist, game, game', [NoInput EXCEPT !.r = r])
    /\ UNCHANGED <<level, bfsVars, loadVars, lastConsume, physVars>>

NextBoost == BoostStep

SpecBoost == InitBoost /\ [][NextBoost]_vars

\* The apples the step from g to g2 removed, and the pellets it consumed.
ApplesTaken(g, g2) == Len(g.level.Apples) - Len(g2.level.Apples)

PelletsEaten(g2) == IF "consumed" \in Events(g2) THEN 1 ELSE 0

\* What a Playing tick that creates no level does to the counters.
BoostTickOK(g, g2) ==
    /\ g2.score = g.score + ApplesTaken(g, g2) + PelletsEaten(g2)
    /\ g2.pelletsCollected = g.pelletsCollected + PelletsEaten(g2)
    /\ "won" \in Events(g2) => PelletsEaten(g2) = 1
    /\ ApplesTaken(g, g2) > 0 => g2.speedBoostFrames = SpeedBoostTime - 1
    /\ (ApplesTaken(g, g2) = 0 /\ g.speedBoostFrames > 0) =>
          g2.speedBoostFrames = g.speedBoostFrames - 1
    /\ (ApplesTaken(g, g2) = 0 /\ g.speedBoostFrames = 0) => g2.speedBoostFrames = 0

\* C37: at the end of every Playing tick the player's Speed is
\* basePlayerSpeed x 1.8 if speedBoostFrames > 0 and basePlayerSpeed
\* otherwise, and 0 <= speedBoostFrames < 300; a tick in which no apple is
\* taken counts a running boost down by one, so that the boost expires
\* unless an apple renews it; an apple adds one to score and nothing to
\* pelletsCollected, and no tick signals the win without consuming a pellet.
C37_SpeedBoost ==
    /\ []("tick" \in Events(game) =>
            /\ game.player.Speed = IF game.speedBoostFrames > 0
                                   THEN Boosted(game.basePlayerSpeed)
                                   ELSE game.basePlayerSpeed
            /\ game.basePlayerSpeed = PlayerSpeed
            /\ 0 <= game.speedBoostFrames /\ game.speedBoostFrames < SpeedBoostTime)
    /\ [][("tick" \in Events(game')
             /\ Events(game') \cap { "initLevel", "resetLevel" } = {}) =>
                BoostTickOK(game, game')]_vars

\* A boost that a second apple renewed has expired: both apples are gone,
\* the tick counter has passed the length of a boost, the player is back at
\* its base speed, the score counts two apples and one pellet.
C37_Witness ==
    /\ "tick" \in Events(game)
    /\ game.level.Apples = << >>
    /\ game.frame > SpeedBoostTime
    /\ game.speedBoostFrames = 0
    /\ game.player.Speed = PlayerSpeed
    /\ game.score = 3 /\ game.pelletsCollected = 1

---------------------------------------------------------------------------
(* Specification SpecDefault: the game on DefaultLevelData itself.  From   *)
(* the menu the level is created by initLevel at each difficulty, and a    *)
(* created level is reset by resetLevel as checkCaught does after a catch, *)
(* over DefaultMaxDraw of the outcomes of the draws of spawnApples.        *)

DefaultMaxDraw == 24

\* Two or three apples, on consecutive walkable tiles from tile i on.
DefaultDraws == { << a, i, i + 1, i + 2 >> : a \in 0 .. 1, i \in 0 .. (DefaultMaxDraw \div 2) - 1 }

InitDefault ==
    /\ game = NewGame(DefaultLevelData)
    /\ hist = [eaten |-> 0, wins |-> 0, pelletsBefore |-> 0, frameBefore |-> 0,
               restart |-> FALSE, recreated |-> FALSE]
    /\ level = NoLevel
    /\ IdleBFS /\ IdleLoad /\ IdleConsume /\ IdlePhys

\* Update in the menu with Start chosen: the phase, the difficulty, initLevel.
DefaultStart ==
    /\ game.gameState = StateMenu
    /\ \E d \in 1 .. 3, draws \in DefaultDraws :
          game' = initLevel([game EXCEPT !.gameState = StatePlaying,
                                         !.difficulty = Difficulties[d],
                                         !.log = << >>], draws)
    /\ UNCHANGED <<hist, level, bfsVars, loadVars, lastConsume, physVars>>

\* The reset of checkCaught.
DefaultCatch ==
    /\ game.gameState = StatePlaying
    /\ "initLevel" \in Events(game)
    /\ \E draws \in DefaultDraws :
          game' = resetLevel([game EXCEPT !.log = << >>], draws)
    /\ UNCHANGED <<hist, level, bfsVars, loadVars, lastConsume, physVars>>

NextDefault == DefaultStart \/ DefaultCatch

SpecDefault == InitDefault /\ [][NextDefault]_vars

\* The tiles that walkable steps reach from the player's spawn tile.
RECURSIVE ReachFrom(_, _, _)
ReachFrom(lvl, frontier, seen) ==
    UNION { IF more = {} THEN seen ELSE ReachFrom(lvl, more, seen \cup more) :
              more \in { NextLayer(lvl, frontier, seen) } }

ReachFromSpawn(lvl) ==
    ReachFrom(lvl, { << PlayerSpawn.X, PlayerSpawn.Y >> }, { << PlayerSpawn.X, PlayerSpawn.Y >> })

====
